---- MODULE Spec2Model ----
(***************************************************************************)
(* Model of the rule-extraction pipeline of the upload-documents edge      *)
(* function: the retry loop of callOpenAIWithRetry, the batch scheduler    *)
(* of extractRulesFromText with the semantic cache of extraction/cache.ts, *)
(* and the background task of Deno.serve with exact reuse by file hash.    *)
(*                                                                         *)
(* Three specifications share the module's variables:                      *)
(*   SpecRetry  one invocation of callOpenAIWithRetry, attempt by attempt  *)
(*   SpecSched  one run of extractRulesFromText, batch by batch            *)
(*   Spec       uploads of documents and their background runs             *)
(***************************************************************************)
EXTENDS Integers, Sequences, FiniteSets, TLC

VARIABLES
  \* ---- callOpenAIWithRetry (SpecRetry)
  maxRetries,      \* the maxRetries parameter of the invocation
  attempt,         \* the loop variable
  retryPc,         \* "fetch" | "wait" | "returned" | "thrown"
  fetchCalls,      \* completion calls issued so far
  outcomes,        \* the outcome of each completion call so far
  waits,           \* the backoff waits performed so far (ms)
  pendingWait,     \* the wait in progress, <<>> or <<ms>>
  retResult,       \* the returned list
  \* ---- extractRulesFromText (SpecSched)
  schedPc,         \* "idle" | "parsed" | "extract" | "running" | "returned" | "p70"
  batches,         \* the batches array
  groupStart,      \* the loop variable i of the group loop
  batchPc,         \* batch -> "pending" | "lookup" | "llm" | "update" | "done"
  doc,             \* the document text: the userContent of each batch
  batchRules,      \* batch -> the rules it obtained (cache or completion)
  batchHow,        \* batch -> how it obtained them: "none" | "hit" | "hit_other" | "ok" | "failed"
  batchRet,        \* batch -> what its promise resolved to
  batchThrew,      \* batch -> its body threw into the catch
  batchScript,     \* batch -> the provider's script for its completion calls (<<>>: no call)
  batchLookup,     \* batch -> "ok" | "failed": its lookup's calls ("": not yet)
  batchWrite,      \* batch -> the progress write in flight, <<>> or <<progress>>
  resolved,        \* the batches of the group whose promise has resolved, in the order they resolved
  processedBatches,\* the completion counter
  allRules,        \* the aggregate list
  uniqueRules,     \* the returned list
  jobProgress,     \* the progress the job tracker holds
  cacheOn,         \* isCacheAvailable()
  semanticCacheEnabled, \* the deployment sets SEMANTIC_CACHE_ENABLED to "true"
  cacheIndex,      \* the vector index: set of entries
  pendingStores,   \* fire-and-forget cacheRules calls in flight
  storeRejected,   \* a cacheRules call has thrown (its promise rejected)
  cacheStats,      \* cacheHits, cacheMisses
  faults,          \* failures of the cache's and the tracker's calls so far
  nChunks,         \* chunks.length
  apiKey,          \* OPENAI_API_KEY is set
  \* ---- Deno.serve background task (Spec)
  documents,       \* document id -> row of table documents (or NoRow)
  jobs,            \* document id -> row of table jobs (or NoRow)
  rulesTable,      \* document id -> rows of table rules
  runPc,           \* document id -> position of its background task
  runLocal,        \* document id -> the task's locals
  exactReuse,      \* EXACT_REUSE_ENABLED
  pipeFaults,      \* failures of the database's and the parser's calls so far
  \* ---- the validation and deduplication of extractRulesFromText (SpecValid)
  valPc,           \* "filter" | "dedup" | "returned"
  valRun,          \* "first" | "again" (on its own output) | "twice" (on the list doubled)
  valRules,        \* allRules: the candidates given to the validation
  validatedRules,  \* the candidates after .filter and .map
  valUnique,       \* uniqueRules: the list returned
  valFirst         \* what the first run returned

varsRetry == <<maxRetries, attempt, retryPc, fetchCalls, outcomes, waits,
               pendingWait, retResult>>
varsSched == <<schedPc, batches, groupStart, batchPc, doc, batchRules,
               batchHow, batchRet, batchThrew, batchScript, batchLookup,
               batchWrite, resolved, processedBatches, allRules, uniqueRules, jobProgress, cacheOn,
               semanticCacheEnabled, cacheIndex, pendingStores, storeRejected, cacheStats, faults, nChunks,
               apiKey>>
varsPipe  == <<documents, jobs, rulesTable, runPc, runLocal, exactReuse, pipeFaults>>
varsValid == <<valPc, valRun, valRules, validatedRules, valUnique, valFirst>>
vars      == <<varsRetry, varsSched, varsPipe, varsValid>>

(***************************************************************************)
(* Helpers                                                                 *)
(***************************************************************************)
Min(a, b) == IF a <= b THEN a ELSE b
Max(a, b) == IF a >= b THEN a ELSE b

RECURSIVE Pow2(_)
Pow2(n) == IF n = 0 THEN 1 ELSE 2 * Pow2(n - 1)

RECURSIVE Flatten(_)
Flatten(ss) == IF ss = <<>> THEN <<>> ELSE Head(ss) \o Flatten(Tail(ss))

RECURSIVE SeqSum(_)
SeqSum(s) == IF s = <<>> THEN 0 ELSE Head(s) + SeqSum(Tail(s))

Range(s) == {s[i] : i \in 1..Len(s)}

(***************************************************************************)
(* Rule candidates.  A text is a left pad, a right pad (whitespace) and a  *)
(* sequence of words; a word has its letters in lower case w, their number *)
(* n, a capitalisation flag and a number of punctuation characters         *)
(* attached; na of its letters are outside [A-Za-z0-9_] (accented letters, *)
(* written here with the accent after the letter) and bare is the word     *)
(* without them.  Confidence is in 1/10000.                                *)
(***************************************************************************)
Word(w, n, cap, punct) ==
  [w |-> w, n |-> n, cap |-> cap, punct |-> punct, bare |-> w, na |-> 0]
Accented(w, n, bare, na, punct) ==
  [w |-> w, n |-> n, cap |-> FALSE, punct |-> punct, bare |-> bare, na |-> na]
Text(lead, trail, words) == [lead |-> lead, trail |-> trail, words |-> words]

Rule(text, tags, confidence, page) ==
  [text |-> text, conditions |-> <<>>, domain |-> "Finance", tags |-> tags,
   confidence |-> confidence, source |-> [page |-> page, section |-> "null"]]

TxtPay    == Text(0, 0, <<Word("invoices", 8, TRUE, 0), Word("are", 3, FALSE, 0),
                          Word("paid", 4, FALSE, 0), Word("monthly", 7, FALSE, 1)>>)
TxtPayDup == Text(1, 1, <<Word("invoices", 8, FALSE, 1), Word("paid", 4, TRUE, 0),
                          Word("monthly", 7, FALSE, 0)>>)
TxtAudit  == Text(0, 0, <<Word("audits", 6, TRUE, 0), Word("happen", 6, FALSE, 0),
                          Word("yearly", 6, FALSE, 1)>>)
TxtShort  == Text(2, 0, <<Word("pay", 3, TRUE, 0), Word("all", 3, FALSE, 1)>>)

RPay      == Rule(TxtPay, <<"t1", "t2">>, 9000, 1)
RPayDup   == Rule(TxtPayDup, <<"t1">>, 8000, 2)
RAudit    == Rule(TxtAudit, <<"t1", "t2", "t3", "t4", "t5", "t6", "t7", "t8", "t9">>, 15000, 0)
RLowConf  == Rule(TxtAudit, <<>>, 1000, 1)
RShort    == Rule(TxtShort, <<"t1">>, 9000, 1)

(***************************************************************************)
(* Rule Validator & Deduplicator (extractRulesFromText, after the groups)  *)
(***************************************************************************)
MIN_TEXT_LENGTH == 10
MIN_CONFIDENCE  == 3000
MAX_TAGS        == 8
MIN_WORD_LENGTH == 3
MAX_KEY_WORDS   == 15
ONE             == 10000

RECURSIVE WordsLength(_)
WordsLength(ws) ==
  IF ws = <<>> THEN 0
  ELSE Head(ws).n + Head(ws).punct + (IF Len(ws) > 1 THEN 1 ELSE 0) + WordsLength(Tail(ws))

\* text.length
TextLength(t) == t.lead + WordsLength(t.words) + t.trail

\* text.trim()
Trim(t) == [t EXCEPT !.lead = 0, !.trail = 0]

\* the filter, had it dropped a confidence equal to the minimum
PassesFilter_StrictConfidence(r) ==
  /\ TextLength(r.text) > 0
  /\ TextLength(Trim(r.text)) >= MIN_TEXT_LENGTH
  /\ ~(r.confidence <= MIN_CONFIDENCE)

\* the .filter(...) of the validation
PassesFilter(r) ==
  /\ TextLength(r.text) > 0
  /\ TextLength(Trim(r.text)) >= MIN_TEXT_LENGTH
  /\ ~(r.confidence < MIN_CONFIDENCE)

\* the .map(...), had it kept the confidence as given
CleanRule_NoClamp(r) ==
  [r EXCEPT !.text = Trim(r.text),
            !.tags = SubSeq(r.tags, 1, Min(MAX_TAGS, Len(r.tags)))]

\* the .map(...), had it clamped the confidence from below only
CleanRule_NoUpperBound(r) ==
  [r EXCEPT !.text = Trim(r.text),
            !.tags = SubSeq(r.tags, 1, Min(MAX_TAGS, Len(r.tags))),
            !.confidence = Max(0, r.confidence)]

\* the .map(...) of the validation (source.page || 0 and source.section ||
\* null leave the catalogue's rules, which carry a source, as they are)
CleanRule(r) ==
  [r EXCEPT !.text = Trim(r.text),
            !.tags = SubSeq(r.tags, 1, Min(MAX_TAGS, Len(r.tags))),
            !.confidence = Min(ONE, Max(0, r.confidence))]

RECURSIVE ValidateRules(_)
ValidateRules(rs) ==
  IF rs = <<>> THEN <<>>
  ELSE (IF PassesFilter(Head(rs)) THEN <<CleanRule(Head(rs))>> ELSE <<>>)
       \o ValidateRules(Tail(rs))

\* toLowerCase, replace(/[^\w\s]/g, '') (which takes away the punctuation
\* and every letter outside [A-Za-z0-9_]), split, keep words longer than 3
RECURSIVE SignificantWords(_)
SignificantWords(ws) ==
  IF ws = <<>> THEN <<>>
  ELSE (IF Head(ws).n - Head(ws).na > MIN_WORD_LENGTH THEN <<Head(ws).bare>> ELSE <<>>)
       \o SignificantWords(Tail(ws))

\* the normalized key of a rule text; its SHA-256 is taken as collision-free,
\* so the key stands for its hash
NormalizedKey(t) ==
  LET sw == SignificantWords(t.words)
  IN  SubSeq(sw, 1, Min(MAX_KEY_WORDS, Len(sw)))

RECURSIVE DedupFrom(_, _)
DedupFrom(rs, seenHashes) ==
  IF rs = <<>> THEN <<>>
  ELSE LET k == NormalizedKey(Head(rs).text)
       IN  IF k \in seenHashes THEN DedupFrom(Tail(rs), seenHashes)
           ELSE <<Head(rs)>> \o DedupFrom(Tail(rs), seenHashes \cup {k})

\* A mutant: a rule is dropped only when its key is that of the rule before it.
RECURSIVE DedupAdjacent(_, _)
DedupAdjacent(rs, last) ==
  IF rs = <<>> THEN <<>>
  ELSE LET k == NormalizedKey(Head(rs).text)
       IN  IF <<k>> = last THEN DedupAdjacent(Tail(rs), last)
           ELSE <<Head(rs)>> \o DedupAdjacent(Tail(rs), <<k>>)

Deduplicate_AdjacentOnly(rs) == DedupAdjacent(rs, <<>>)

\* the loop, had it kept every validated rule
Deduplicate_KeepAll(rs) == rs

Deduplicate(rs) == DedupFrom(rs, {})

\* what extractRulesFromText returns for an aggregate list
ValidateAndDedup(rs) == Deduplicate(ValidateRules(rs))

(***************************************************************************)
(* callOpenAIWithRetry                                                     *)
(***************************************************************************)
DEFAULT_MAX_RETRIES             == 3
RETRY_DELAY_BASE_MS             == 300
RETRY_DELAY_MAX_MS              == 8000
RETRY_DELAY_SERVER_ERROR_MAX_MS == 3000

\* what one completion call can come to:
\*   h429 h5xx h4xx  a non-ok HTTP status
\*   nobody          ok, no choices[0].message.content
\*   badjson         ok, content that JSON.parse rejects
\*   norules         ok, JSON without a rules array
\*   throw           fetch, response.text() or response.json() throws
\*   ok              ok, JSON with a rules array
Outcomes == {"h429", "h5xx", "h4xx", "nobody", "badjson", "norules", "jsonnull",
             "throw", "ok"}

\* the rules arrays the provider answers with
Answers == {<<>>, <<RPay>>, <<RPay, RLowConf>>, <<RAudit, RPayDup>>, <<RShort>>}

RateLimitWait(a)   == Min(Pow2(a) * RETRY_DELAY_BASE_MS, RETRY_DELAY_MAX_MS)
ServerErrorWait(a) == Min(Pow2(a) * RETRY_DELAY_BASE_MS, RETRY_DELAY_SERVER_ERROR_MAX_MS)

Continue(wait) == [next |-> "continue", wait |-> wait, ret |-> <<>>]
Return(rules)  == [next |-> "return", wait |-> <<>>, ret |-> rules]
Throw          == [next |-> "throw", wait |-> <<>>, ret |-> <<>>]

\* A mutant: a 429 is taken as not recoverable.
AttemptBody_No429Retry(a, o, m, answer) ==
  CASE o = "h429" -> Return(<<>>)
    [] o = "h5xx" -> IF a < m - 1 THEN Continue(<<ServerErrorWait(a)>>) ELSE Return(<<>>)
    [] o = "h4xx" -> Return(<<>>)
    [] o \in {"nobody", "badjson"} ->
         IF a < m - 1 THEN Continue(<<RETRY_DELAY_BASE_MS>>) ELSE Return(<<>>)
    [] o = "norules" -> Return(<<>>)
    [] o \in {"throw", "jsonnull"} ->
         Continue(IF a < m - 1 THEN <<ServerErrorWait(a)>> ELSE <<>>)
    [] o = "ok" -> Return(answer)

\* A mutant: the last attempt's exception is rethrown, and a response without
\* a rules array yields what was parsed.
AttemptBody_Rethrow(a, o, m, answer) ==
  CASE o = "h429" -> Continue(<<RateLimitWait(a)>>)
    [] o = "h5xx" -> IF a < m - 1 THEN Continue(<<ServerErrorWait(a)>>) ELSE Return(<<>>)
    [] o = "h4xx" -> Return(<<>>)
    [] o \in {"nobody", "badjson"} ->
         IF a < m - 1 THEN Continue(<<RETRY_DELAY_BASE_MS>>) ELSE Return(<<>>)
    [] o = "norules" -> Return(<<>>)
    [] o \in {"throw", "jsonnull"} ->
         IF a < m - 1 THEN Continue(<<ServerErrorWait(a)>>) ELSE Throw
    [] o = "ok" -> Return(answer)

\* A mutant: a JSON-parse failure is taken as not recoverable.
AttemptBody_NoParseRetry(a, o, m, answer) ==
  CASE o = "h429" -> Continue(<<RateLimitWait(a)>>)
    [] o = "h5xx" -> IF a < m - 1 THEN Continue(<<ServerErrorWait(a)>>) ELSE Return(<<>>)
    [] o = "h4xx" -> Return(<<>>)
    [] o = "nobody" ->
         IF a < m - 1 THEN Continue(<<RETRY_DELAY_BASE_MS>>) ELSE Return(<<>>)
    [] o \in {"badjson", "norules"} -> Return(<<>>)
    [] o \in {"throw", "jsonnull"} ->
         Continue(IF a < m - 1 THEN <<ServerErrorWait(a)>> ELSE <<>>)
    [] o = "ok" -> Return(answer)

\* A mutant: one cap, that of the rate limit, for every backoff.
AttemptBody_OneCap(a, o, m, answer) ==
  CASE o = "h429" -> Continue(<<RateLimitWait(a)>>)
    [] o = "h5xx" -> IF a < m - 1 THEN Continue(<<RateLimitWait(a)>>) ELSE Return(<<>>)
    [] o = "h4xx" -> Return(<<>>)
    [] o \in {"nobody", "badjson"} ->
         IF a < m - 1 THEN Continue(<<RETRY_DELAY_BASE_MS>>) ELSE Return(<<>>)
    [] o = "norules" -> Return(<<>>)
    [] o \in {"throw", "jsonnull"} ->
         Continue(IF a < m - 1 THEN <<RateLimitWait(a)>> ELSE <<>>)
    [] o = "ok" -> Return(answer)

\* The body of the for loop for attempt a (0-based) of m, when the completion
\* call comes to o (and, if ok, carries the rules array answer): continue after
\* a wait, return a list, or throw.  norules is a parsed value without a rules
\* array; jsonnull is the content "null", which JSON.parse turns into null, so
\* that the read of parsed.rules throws a TypeError into the catch.
AttemptBody(a, o, m, answer) ==
  CASE o = "h429" -> Continue(<<RateLimitWait(a)>>)
    [] o = "h5xx" -> IF a < m - 1 THEN Continue(<<ServerErrorWait(a)>>) ELSE Return(<<>>)
    [] o = "h4xx" -> Return(<<>>)
    [] o \in {"nobody", "badjson"} ->
         IF a < m - 1 THEN Continue(<<RETRY_DELAY_BASE_MS>>) ELSE Return(<<>>)
    [] o = "norules" -> Return(<<>>)
    [] o \in {"throw", "jsonnull"} ->
         Continue(IF a < m - 1 THEN <<ServerErrorWait(a)>> ELSE <<>>)
    [] o = "ok" -> Return(answer)

\* The whole invocation on a script (the outcome of each call in turn):
\* the list returned, the calls made, the waits performed.
RECURSIVE RetryFrom(_, _, _, _)
RetryFrom(a, script, m, answer) ==
  IF ~(a < m) THEN [result |-> <<>>, calls |-> 0, waits |-> <<>>, threw |-> FALSE]
  ELSE LET b == AttemptBody(a, script[a + 1], m, answer)
       IN  CASE b.next = "return" ->
                  [result |-> b.ret, calls |-> 1, waits |-> <<>>, threw |-> FALSE]
             [] b.next = "throw" ->
                  [result |-> <<>>, calls |-> 1, waits |-> <<>>, threw |-> TRUE]
             [] b.next = "continue" ->
                  LET rest == RetryFrom(a + 1, script, m, answer)
                  IN  [rest EXCEPT !.calls = @ + 1, !.waits = b.wait \o @]

callOpenAIWithRetry(script, answer) == RetryFrom(0, script, DEFAULT_MAX_RETRIES, answer)

\* ---- one invocation, attempt by attempt (SpecRetry)
MaxRetriesBound == 6

IdleSched ==
  /\ schedPc = "idle" /\ batches = <<>> /\ groupStart = 0
  /\ batchPc = <<>> /\ doc = <<>> /\ batchRules = <<>> /\ batchHow = <<>>
  /\ batchRet = <<>> /\ batchThrew = <<>>
  /\ batchScript = <<>> /\ batchLookup = <<>> /\ batchWrite = <<>>
  /\ resolved = <<>>
  /\ processedBatches = 0
  /\ allRules = <<>> /\ uniqueRules = <<>> /\ jobProgress = 0
  /\ cacheOn = FALSE /\ cacheIndex = {} /\ pendingStores = {}
  /\ semanticCacheEnabled = FALSE
  /\ storeRejected = FALSE
  /\ cacheStats = <<>> /\ faults = 0
  /\ nChunks = 0 /\ apiKey = FALSE

IdlePipe ==
  /\ documents = <<>> /\ jobs = <<>> /\ rulesTable = <<>>
  /\ runPc = <<>> /\ runLocal = <<>>
  /\ exactReuse = FALSE /\ pipeFaults = 0

IdleValid ==
  /\ valPc = "idle" /\ valRun = "none" /\ valRules = <<>>
  /\ validatedRules = <<>> /\ valUnique = <<>> /\ valFirst = <<>>

IdleRetry ==
  /\ maxRetries = 0 /\ attempt = 0 /\ retryPc = "idle" /\ fetchCalls = 0
  /\ outcomes = <<>> /\ waits = <<>> /\ pendingWait = <<>> /\ retResult = <<>>

InitRetry ==
  /\ maxRetries \in 1..MaxRetriesBound
  /\ attempt = 0
  /\ retryPc = "fetch"
  /\ fetchCalls = 0
  /\ outcomes = <<>>
  /\ waits = <<>>
  /\ pendingWait = <<>>
  /\ retResult = <<>>
  /\ IdleSched
  /\ IdlePipe
  /\ IdleValid

\* the end of an iteration that did not return: attempt++ and the loop test
NextIteration ==
  /\ attempt' = attempt + 1
  /\ retryPc' = IF attempt + 1 < maxRetries THEN "fetch" ELSE "returned"
  /\ retResult' = <<>>

\* one completion call and the code that handles its outcome, up to the
\* wait, the return or the next iteration
Attempt(o, answer) ==
  /\ retryPc = "fetch"
  /\ attempt < maxRetries
  /\ fetchCalls' = fetchCalls + 1
  /\ outcomes' = Append(outcomes, o)
  /\ LET b == AttemptBody(attempt, o, maxRetries, answer)
     IN  CASE b.next = "return" ->
                /\ retryPc' = "returned"
                /\ retResult' = b.ret
                /\ UNCHANGED <<attempt, pendingWait>>
           [] b.next = "throw" ->
                /\ retryPc' = "thrown"
                /\ UNCHANGED <<attempt, pendingWait, retResult>>
           [] b.next = "continue" /\ b.wait # <<>> ->
                /\ retryPc' = "wait"
                /\ pendingWait' = b.wait
                /\ UNCHANGED <<attempt, retResult>>
           [] b.next = "continue" /\ b.wait = <<>> ->
                /\ NextIteration
                /\ UNCHANGED pendingWait
  /\ UNCHANGED <<maxRetries, waits, varsSched, varsPipe, varsValid>>

\* the setTimeout of a backoff fires
Backoff ==
  /\ retryPc = "wait"
  /\ waits' = waits \o pendingWait
  /\ pendingWait' = <<>>
  /\ NextIteration
  /\ UNCHANGED <<maxRetries, fetchCalls, outcomes, varsSched, varsPipe, varsValid>>

NextRetry ==
  \/ \E o \in Outcomes, answer \in Answers :
       /\ (o # "ok" => answer = <<>>)
       /\ Attempt(o, answer)
  \/ Backoff

SpecRetry == InitRetry /\ [][NextRetry]_vars

\* C1 (retry bound): an invocation whose completion calls all return HTTP 429
\* makes exactly maxRetries calls and returns the empty list; with the default
\* of 3 that is 3 calls.
AllRateLimited == \A i \in 1..Len(outcomes) : outcomes[i] = "h429"

C1_RetryBound ==
  /\ (AllRateLimited /\ retryPc = "returned") =>
        (fetchCalls = maxRetries /\ retResult = <<>>)
  /\ (AllRateLimited /\ retryPc \in {"fetch", "wait"}) => fetchCalls <= maxRetries
  /\ AllRateLimited => retryPc # "thrown"
  /\ LET r == callOpenAIWithRetry(<<"h429", "h429", "h429">>, <<RPay>>)
     IN  r.calls = DEFAULT_MAX_RETRIES /\ r.result = <<>> /\ ~r.threw

C1_Witness ==
  /\ retryPc = "returned"
  /\ maxRetries = DEFAULT_MAX_RETRIES
  /\ outcomes = <<"h429", "h429", "h429">>
  /\ fetchCalls = 3

\* C2 (fails closed): whatever the outcomes of its completion calls, an
\* invocation never throws, makes at least 1 and at most maxRetries calls, and
\* returns a non-empty list only when its last call carried a well-formed
\* response with a rules array; otherwise it returns the empty list.
C2_FailsClosed ==
  /\ retryPc # "thrown"
  /\ fetchCalls <= maxRetries
  /\ fetchCalls = Len(outcomes)
  /\ retryPc = "returned" =>
       /\ fetchCalls >= 1
       /\ retResult # <<>> => outcomes[Len(outcomes)] = "ok"
       /\ (\A i \in 1..Len(outcomes) : outcomes[i] # "ok") => retResult = <<>>

C2_Witness ==
  /\ retryPc = "returned"
  /\ outcomes = <<"throw", "badjson", "ok">>
  /\ retResult = <<RPay, RLowConf>>

\* the outcomes of a completion call by class
ClientErrors     == {"h4xx"}
LacksRulesArray  == {"norules", "jsonnull"}
RetryableClasses == {"h5xx", "throw", "nobody", "badjson"}

\* C26: a 4xx response other than 429, or a parsed response without a rules
\* array, ends the invocation at once: it is the last call of the invocation,
\* which has returned the empty list with no wait started after it.
C26_NonRetryableEndsAtOnce ==
  \A i \in 1..Len(outcomes) :
    outcomes[i] \in ClientErrors \cup LacksRulesArray =>
      /\ i = Len(outcomes)
      /\ retryPc = "returned"
      /\ retResult = <<>>
      /\ pendingWait = <<>>
      /\ Len(waits) < i

\* C27: after a 5xx response, a thrown call, a missing content or a JSON-parse
\* failure on attempt a another call is issued iff a < maxRetries - 1 (the
\* invocation is then waiting or calling, not returned); when every attempt
\* ended so, exactly maxRetries calls were made and the result is empty.
C27_RetryWhileAttemptsRemain ==
  /\ \A i \in 1..Len(outcomes) :
       outcomes[i] \in RetryableClasses =>
         /\ i < Len(outcomes) => i - 1 < maxRetries - 1
         /\ (i = Len(outcomes) /\ i - 1 < maxRetries - 1) => retryPc \in {"wait", "fetch"}
         /\ (i = Len(outcomes) /\ ~(i - 1 < maxRetries - 1)) =>
              (retryPc = "returned" /\ retResult = <<>>)
  /\ (retryPc = "returned" /\ \A i \in 1..Len(outcomes) : outcomes[i] \in RetryableClasses)
       => (fetchCalls = maxRetries /\ retResult = <<>>)

\* an invocation of three attempts, each with a retryable outcome, has made
\* its three calls and returned
C27_Witness ==
  /\ retryPc = "returned"
  /\ maxRetries = DEFAULT_MAX_RETRIES
  /\ outcomes \in {<<"h5xx", "nobody", "throw">>, <<"throw", "badjson", "h5xx">>}
  /\ fetchCalls = 3

\* the wait of each class after attempt a (0-based), and the cap of the class
ClassWait(a, o) ==
  CASE o = "h429" -> Min(RETRY_DELAY_BASE_MS * Pow2(a), RETRY_DELAY_MAX_MS)
    [] o \in {"h5xx", "throw"} ->
         Min(RETRY_DELAY_BASE_MS * Pow2(a), RETRY_DELAY_SERVER_ERROR_MAX_MS)
    [] o \in {"nobody", "badjson"} -> RETRY_DELAY_BASE_MS

ClassCap(o) ==
  CASE o = "h429" -> RETRY_DELAY_MAX_MS
    [] o \in {"h5xx", "throw"} -> RETRY_DELAY_SERVER_ERROR_MAX_MS
    [] o \in {"nobody", "badjson"} -> RETRY_DELAY_BASE_MS

WaitClasses == {"h429", "h5xx", "throw", "nobody", "badjson"}

\* C28: every wait, done or in progress, is the wait of the class of the
\* attempt it follows and is within the cap of that class: min(300 * 2^a, 8000)
\* after a 429, min(300 * 2^a, 3000) after a 5xx or a thrown call, 300 after a
\* missing content or a JSON-parse failure.
C28_BackoffPerClass ==
  LET all == waits \o pendingWait
  IN  /\ Len(all) <= Len(outcomes)
      /\ \A i \in 1..Len(all) :
           /\ all[i] <= RETRY_DELAY_MAX_MS
           /\ outcomes[i] \in WaitClasses =>
                /\ all[i] = ClassWait(i - 1, outcomes[i])
                /\ all[i] <= ClassCap(outcomes[i])

\* an invocation has waited the capped 3000 ms after a 5xx, the capped 8000 ms
\* after a 429 and the base 300 ms after a later missing content
C28_Witness ==
  /\ retryPc = "returned"
  /\ \E i, j, k \in 1..Len(waits) :
       /\ outcomes[i] = "h5xx" /\ waits[i] = 3000 /\ Pow2(i - 1) * 300 > 3000
       /\ outcomes[j] = "h429" /\ waits[j] = 8000 /\ Pow2(j - 1) * 300 > 8000
       /\ outcomes[k] \in {"nobody", "badjson"} /\ k > 1 /\ waits[k] = 300

\* C36: an invocation never waits after its final attempt: a wait is in
\* progress only when another completion call is to follow it, and an
\* invocation that has returned has waited fewer times than it has called.
C36_NoWaitAfterFinalAttempt ==
  /\ retryPc = "wait" => attempt + 1 < maxRetries
  /\ retryPc = "returned" => Len(waits) < fetchCalls

(***************************************************************************)
(* Semantic cache (extraction/cache.ts)                                    *)
(***************************************************************************)
CACHE_THRESHOLD == 930

\* A batch text (userContent): a body and whether it is written in capitals.
BT(body, upper) == [body |-> body, upper |-> upper]
BatchTexts == {BT("A", FALSE), BT("An", FALSE), BT("B", FALSE)}

\* The cosine similarity (in 1/1000) of the embeddings of two texts: "An" is a
\* near-duplicate of "A" at the threshold, "B" is just below it from "An" and
\* far from "A".
Score(t, u) ==
  CASE t = u -> 1000
    [] t.body = u.body -> 960
    [] {t.body, u.body} = {"A", "An"} -> 930
    [] {t.body, u.body} = {"An", "B"} -> 929
    [] OTHER -> 200

\* createChunkHash: the SHA-256 (taken as collision-free) of the text in
\* lower case; the hash is stood for by the text it is taken of.
createChunkHash(t) == [t EXCEPT !.upper = FALSE]

\* what a lookup's two calls can come to
LookupOutcomes == {"ok", "embed_status", "embed_throw", "embed_malformed",
                   "query_status", "query_throw", "query_malformed",
                   "query_nometadata", "query_noscore"}
\* what a store's two calls can come to
StoreOutcomes == {"ok", "embed_fail", "upsert_status", "upsert_throw"}

NoEntry == [id |-> "none"]

\* the answers the vector index can give to query(vector, topK = 1)
TopK1(index, t) ==
  IF index = {} THEN {NoEntry}
  ELSE {e \in index : \A f \in index : Score(f.vector, t) <= Score(e.vector, t)}

Miss(stats, dm) ==
  [hit |-> FALSE, rules |-> <<>>, threw |-> FALSE,
   stats |-> [stats EXCEPT !.misses = @ + dm]]

\* A mutant: a score equal to the threshold is a miss.
getCachedRules_StrictThreshold(available, t, e, lo, stats) ==
  IF ~available THEN Miss(stats, 0)
  ELSE CASE lo \in {"embed_status", "embed_throw", "embed_malformed"} -> Miss(stats, 1)
         [] lo = "query_status" -> Miss(stats, 1)
         [] lo \in {"query_throw", "query_malformed"} -> Miss(stats, 1)
         [] lo = "query_nometadata" ->
              IF e = NoEntry \/ Score(e.vector, t) < CACHE_THRESHOLD
              THEN Miss(stats, 1)
              ELSE [Miss(stats, 1) EXCEPT !.stats.hits = @ + 1]
         [] lo = "query_noscore" ->
              \* results[0].score is undefined: undefined < CACHE_THRESHOLD is false
              IF e = NoEntry
              THEN Miss(stats, 1)
              ELSE [hit |-> TRUE, rules |-> e.metadata.rules, threw |-> FALSE,
                    stats |-> [stats EXCEPT !.hits = @ + 1]]
         [] lo = "ok" ->
              IF e = NoEntry \/ Score(e.vector, t) <= CACHE_THRESHOLD
              THEN Miss(stats, 1)
              ELSE [hit |-> TRUE, rules |-> e.metadata.rules, threw |-> FALSE,
                    stats |-> [stats EXCEPT !.hits = @ + 1]]

\* getCachedRules(chunkText) when the two calls come to lo and the index
\* answers e: the rules or a miss (null), whether it threw, and the counters.
getCachedRules(available, t, e, lo, stats) ==
  IF ~available THEN Miss(stats, 0)
  ELSE CASE lo \in {"embed_status", "embed_throw", "embed_malformed"} -> Miss(stats, 1)
         [] lo = "query_status" -> Miss(stats, 1)
         [] lo \in {"query_throw", "query_malformed"} -> Miss(stats, 1)
         [] lo = "query_nometadata" ->
              IF e = NoEntry \/ Score(e.vector, t) < CACHE_THRESHOLD
              THEN Miss(stats, 1)
              ELSE [Miss(stats, 1) EXCEPT !.stats.hits = @ + 1]
         [] lo = "query_noscore" ->
              \* results[0].score is undefined: undefined < CACHE_THRESHOLD is false
              IF e = NoEntry
              THEN Miss(stats, 1)
              ELSE [hit |-> TRUE, rules |-> e.metadata.rules, threw |-> FALSE,
                    stats |-> [stats EXCEPT !.hits = @ + 1]]
         [] lo = "ok" ->
              IF e = NoEntry \/ Score(e.vector, t) < CACHE_THRESHOLD
              THEN Miss(stats, 1)
              ELSE [hit |-> TRUE, rules |-> e.metadata.rules, threw |-> FALSE,
                    stats |-> [stats EXCEPT !.hits = @ + 1]]

\* getCacheStats(): the counters and the hit rate, a fraction given by its
\* numerator and denominator (0 when nothing was counted)
getCacheStats(stats) ==
  LET total == stats.hits + stats.misses
  IN  [hits |-> stats.hits, misses |-> stats.misses,
       hitRate |-> IF total > 0 THEN <<stats.hits, total>> ELSE <<0, 1>>]

\* A mutant: the entry is built without the rules.
CacheEntry_NoRules(t, rules, docId, chunkIndex) ==
  [id |-> createChunkHash(t), vector |-> t,
   metadata |-> [rules |-> <<>>, docId |-> docId, chunkIndex |-> chunkIndex,
                 model |-> "gpt-4o-mini"]]

\* the entry cacheRules upserts
CacheEntry(t, rules, docId, chunkIndex) ==
  [id |-> createChunkHash(t), vector |-> t,
   metadata |-> [rules |-> rules, docId |-> docId, chunkIndex |-> chunkIndex,
                 model |-> "gpt-4o-mini"]]

\* A mutant: the upsert adds the entry and leaves an entry of the same ID.
Upsert_Add(index, entry) == index \cup {entry}

\* POST /upsert {id, vector, metadata}: the entry replaces the entry of its ID
Upsert(index, entry) == {e \in index : e.id # entry.id} \cup {entry}

\* A mutant: the upsert is awaited outside the try.
cacheRules_ThrowEscapes(available, index, t, rules, docId, chunkIndex, so) ==
  IF ~available THEN [index |-> index, threw |-> FALSE]
  ELSE CASE so = "embed_fail"    -> [index |-> index, threw |-> FALSE]
         [] so = "upsert_status" -> [index |-> index, threw |-> FALSE]
         [] so = "upsert_throw"  -> [index |-> index, threw |-> TRUE]
         [] so = "ok" ->
              [index |-> Upsert(index, CacheEntry(t, rules, docId, chunkIndex)),
               threw |-> FALSE]

\* cacheRules(chunkText, rules, requestId, docId, chunkIndex) when its two
\* calls come to so: the index afterwards, and whether the call threw.
\* getEmbedding returns null on a status and on a throw (embed_fail) and
\* cacheRules returns; a status of the upsert returns; a throw of the upsert
\* is caught by the try of cacheRules.
cacheRules(available, index, t, rules, docId, chunkIndex, so) ==
  IF ~available THEN [index |-> index, threw |-> FALSE]
  ELSE CASE so = "embed_fail"    -> [index |-> index, threw |-> FALSE]
         [] so = "upsert_status" -> [index |-> index, threw |-> FALSE]
         [] so = "upsert_throw"  -> [index |-> index, threw |-> FALSE]
         [] so = "ok" ->
              [index |-> Upsert(index, CacheEntry(t, rules, docId, chunkIndex)),
               threw |-> FALSE]

(***************************************************************************)
(* extractRulesFromText: the batch scheduler                               *)
(***************************************************************************)
BATCH_SIZE                      == 4
MAX_CONCURRENT_BATCHES          == 3
UPDATE_PROGRESS_EVERY_N_BATCHES == 1
PROGRESS_START                  == 30
PROGRESS_SPAN                   == 40
PROGRESS_END                    == 70
PROGRESS_CREATED                == 10

MaxBatches == 4
MaxFaults  == 1
\* the documents' chunk counts: every count up to two full batches, and
\* MaxBatches batches with a last batch of one chunk
ChunkCounts == (1..(2 * BATCH_SIZE)) \cup {(MaxBatches - 1) * BATCH_SIZE + 1}

\* batches.push({chunks: chunks.slice(i, i + batchSize), index: i})
RECURSIVE BatchesFrom(_, _)
BatchesFrom(i, n) ==
  IF ~(i < n) THEN <<>>
  ELSE <<[index |-> i, size |-> Min(BATCH_SIZE, n - i)]>> \o BatchesFrom(i + BATCH_SIZE, n)

\* A mutant: a last batch that is not full is dropped.
MakeBatches_DropPartial(n) == BatchesFrom(0, n - (n % BATCH_SIZE))

MakeBatches(n) == BatchesFrom(0, n)

\* A mutant: the group is every batch from i on.
GroupAt_Unbounded(i, n) == {b \in 1..n : i < b}

\* batches.slice(i, i + maxConcurrentBatches), as positions 1..n of n batches
GroupAt(i, n) == {b \in 1..n : i < b /\ b <= i + MAX_CONCURRENT_BATCHES}

BatchGroup(i) == GroupAt(i, Len(batches))

\* 30 + Math.floor((processedBatches / totalBatches) * 40)
Progress(processed, total) == PROGRESS_START + ((processed * PROGRESS_SPAN) \div total)

\* the outcome scripts of the completion provider, and its answer to a text
Scripts == {<<"ok", "ok", "ok">>, <<"h429", "h429", "h429">>}

AnswerOf(t) ==
  CASE t.body = "A"  -> <<RPay, RLowConf>>
    [] t.body = "An" -> <<RPayDup, RShort>>
    [] OTHER         -> <<RAudit>>

JobId == "job"

\* The documents: the texts of a document's batches, which repeat from the
\* fourth batch on.
DocTexts == {<<BT("A", FALSE), BT("A", FALSE), BT("A", FALSE)>>,
             <<BT("A", FALSE), BT("An", FALSE), BT("B", FALSE)>>,
             <<BT("B", FALSE), BT("A", FALSE), BT("An", FALSE)>>}

\* userContent of the batch at position b
batchText(b) == doc[((b - 1) % Len(doc)) + 1]

InFlight == {b \in 1..Len(batches) : batchPc[b] \in {"lookup", "llm", "update"}}

\* Deno.env when the modules load: the variables the cache reads and the
\* flag its documentation names (a variable is set or not; a flag holds a string)
Envs == [CACHE_ENABLED : {"unset", "false"},
         SEMANTIC_CACHE_ENABLED : {"false", "true"},
         UPSTASH_VECTOR_URL : BOOLEAN,
         UPSTASH_VECTOR_TOKEN : BOOLEAN,
         OPENAI_API_KEY : BOOLEAN]

\* isCacheAvailable(): CACHE_ENABLED is Deno.env.get("CACHE_ENABLED") !== "false"
isCacheAvailable(env) ==
  /\ env.CACHE_ENABLED # "false"
  /\ env.UPSTASH_VECTOR_URL /\ env.UPSTASH_VECTOR_TOKEN /\ env.OPENAI_API_KEY

InitSched ==
  /\ nChunks \in ChunkCounts
  /\ doc \in DocTexts
  /\ \E env \in Envs :
       /\ apiKey = env.OPENAI_API_KEY
       /\ cacheOn = isCacheAvailable(env)
       /\ semanticCacheEnabled = (env.SEMANTIC_CACHE_ENABLED = "true")
  /\ schedPc = "parsed"
  /\ jobProgress = PROGRESS_CREATED
  /\ batches = <<>> /\ groupStart = 0
  /\ batchPc = <<>> /\ batchRules = <<>> /\ batchHow = <<>>
  /\ batchRet = <<>> /\ batchThrew = <<>> /\ batchScript = <<>> /\ batchWrite = <<>>
  /\ batchLookup = <<>>
  /\ resolved = <<>>
  /\ processedBatches = 0
  /\ allRules = <<>> /\ uniqueRules = <<>>
  /\ cacheIndex = {} /\ pendingStores = {}
  /\ storeRejected = FALSE
  /\ cacheStats = [hits |-> 0, misses |-> 0]
  /\ faults = 0
  /\ IdleRetry
  /\ IdlePipe
  /\ IdleValid

\* the variables of the run, of the batches, of the cache
runVars   == <<schedPc, batches, groupStart, allRules, uniqueRules, nChunks, apiKey, doc>>
batchVars == <<batchPc, batchRules, batchHow, batchRet, batchThrew,
               batchScript, batchLookup, batchWrite, resolved, processedBatches>>
cacheVars == <<cacheOn, semanticCacheEnabled, cacheIndex, pendingStores, storeRejected, cacheStats>>

\* jobs.update({progress: 30}) before the extraction
WriteProgress30 ==
  /\ schedPc = "parsed"
  /\ jobProgress' = PROGRESS_START
  /\ schedPc' = "extract"
  /\ UNCHANGED <<batches, groupStart, allRules, uniqueRules, nChunks, apiKey, doc>>
  /\ UNCHANGED <<batchVars, cacheVars, faults, varsRetry, varsPipe, varsValid>>

\* batchGroup.map(async (batch) => ...): every batch of group i runs up to its
\* first await, the cache lookup
Launch(i, bs) ==
  batchPc' = [b \in 1..Len(bs) |->
                IF b \in GroupAt(i, Len(bs)) THEN "lookup"
                ELSE IF b <= Len(batchPc) THEN batchPc[b] ELSE "pending"]

\* the entry of extractRulesFromText up to the launch of the first group
StartExtraction ==
  /\ schedPc = "extract"
  /\ IF ~apiKey
     THEN /\ schedPc' = "returned"
          /\ uniqueRules' = <<>>
          /\ UNCHANGED <<batches, groupStart, batchPc, batchRules, batchHow,
                         batchRet, batchThrew, batchScript, batchLookup, batchWrite>>
     ELSE LET bs == MakeBatches(nChunks)
          IN  /\ batches' = bs
              /\ groupStart' = 0
              /\ batchRules' = [b \in 1..Len(bs) |-> <<>>]
              /\ batchHow' = [b \in 1..Len(bs) |-> "none"]
              /\ batchRet' = [b \in 1..Len(bs) |-> <<>>]
              /\ batchThrew' = [b \in 1..Len(bs) |-> FALSE]
              /\ batchScript' = [b \in 1..Len(bs) |-> <<>>]
              /\ batchLookup' = [b \in 1..Len(bs) |-> ""]
              /\ batchWrite' = [b \in 1..Len(bs) |-> <<>>]
              /\ Launch(0, bs)
              /\ IF bs = <<>>
                 THEN schedPc' = "returned" /\ uniqueRules' = <<>>
                 ELSE schedPc' = "running" /\ UNCHANGED uniqueRules
  /\ UNCHANGED <<resolved, processedBatches, allRules, jobProgress, nChunks, apiKey, doc>>
  /\ UNCHANGED <<cacheVars, faults, varsRetry, varsPipe, varsValid>>

\* processedBatches++ and the progress update that follows it, up to the
\* await of the write (or to the return, when no write is due)
Complete(b, rules) ==
  LET p == processedBatches + 1
  IN  /\ processedBatches' = p
      /\ IF p % UPDATE_PROGRESS_EVERY_N_BATCHES = 0
         THEN /\ batchWrite' = [batchWrite EXCEPT ![b] = <<Progress(p, Len(batches))>>]
              /\ batchPc' = [batchPc EXCEPT ![b] = "update"]
              /\ UNCHANGED <<batchRet, resolved>>
         ELSE /\ batchPc' = [batchPc EXCEPT ![b] = "done"]
              /\ batchRet' = [batchRet EXCEPT ![b] = rules]
              /\ resolved' = Append(resolved, b)
              /\ UNCHANGED batchWrite

\* the catch of the batch body
Caught(b) ==
  /\ processedBatches' = processedBatches + 1
  /\ batchPc' = [batchPc EXCEPT ![b] = "done"]
  /\ batchRet' = [batchRet EXCEPT ![b] = <<>>]
  /\ resolved' = Append(resolved, b)
  /\ batchThrew' = [batchThrew EXCEPT ![b] = TRUE]

\* A mutant: the completion provider is called after a hit as well.
LookupDone_CallOnHit(b, lo, e) ==
  /\ schedPc = "running"
  /\ batchPc[b] = "lookup"
  /\ lo # "ok" => (cacheOn /\ faults < MaxFaults)
  /\ faults' = IF lo # "ok" THEN faults + 1 ELSE faults
  /\ batchLookup' = [batchLookup EXCEPT ![b] = IF lo = "ok" THEN "ok" ELSE "failed"]
  /\ LET r == getCachedRules(cacheOn, batchText(b), e, lo, cacheStats)
     IN  /\ cacheStats' = r.stats
         /\ IF r.threw
            THEN /\ Caught(b)
                 /\ UNCHANGED <<batchRules, batchHow, batchWrite>>
            ELSE IF r.hit
            THEN /\ batchRules' = [batchRules EXCEPT ![b] = r.rules]
                 /\ batchHow' = [batchHow EXCEPT ![b] =
                                   IF e.vector = batchText(b) THEN "hit" ELSE "hit_other"]
                 /\ batchPc' = [batchPc EXCEPT ![b] = "llm"]
                 /\ UNCHANGED <<batchRet, batchThrew, batchWrite, resolved, processedBatches>>
            ELSE /\ batchPc' = [batchPc EXCEPT ![b] = "llm"]
                 /\ UNCHANGED <<batchRules, batchHow, batchRet, batchThrew,
                                batchWrite, resolved, processedBatches>>
  /\ UNCHANGED <<batchScript, cacheOn, semanticCacheEnabled, cacheIndex, pendingStores,
                 storeRejected>>
  /\ UNCHANGED <<runVars, jobProgress, varsRetry, varsPipe, varsValid>>

\* getCachedRules resolves for batch b; on a hit the batch goes on to count
\* itself, on a miss it calls callOpenAIWithRetry
LookupDone(b, lo, e) ==
  /\ schedPc = "running"
  /\ batchPc[b] = "lookup"
  /\ lo # "ok" => (cacheOn /\ faults < MaxFaults)
  /\ faults' = IF lo # "ok" THEN faults + 1 ELSE faults
  /\ batchLookup' = [batchLookup EXCEPT ![b] = IF lo = "ok" THEN "ok" ELSE "failed"]
  /\ LET r == getCachedRules(cacheOn, batchText(b), e, lo, cacheStats)
     IN  /\ cacheStats' = r.stats
         /\ IF r.threw
            THEN /\ Caught(b)
                 /\ UNCHANGED <<batchRules, batchHow, batchWrite>>
            ELSE IF r.hit
            THEN /\ batchRules' = [batchRules EXCEPT ![b] = r.rules]
                 /\ batchHow' = [batchHow EXCEPT ![b] =
                                   IF e.vector = batchText(b) THEN "hit" ELSE "hit_other"]
                 /\ Complete(b, r.rules)
                 /\ UNCHANGED batchThrew
            ELSE /\ batchPc' = [batchPc EXCEPT ![b] = "llm"]
                 /\ UNCHANGED <<batchRules, batchHow, batchRet, batchThrew,
                                batchWrite, resolved, processedBatches>>
  /\ UNCHANGED <<batchScript, cacheOn, semanticCacheEnabled, cacheIndex, pendingStores,
                 storeRejected>>
  /\ UNCHANGED <<runVars, jobProgress, varsRetry, varsPipe, varsValid>>

\* A mutant: cacheRules goes on to its calls whatever the configuration.
StoreCall_Unguarded(b, t, rules, ok) ==
  {[batch |-> b, text |-> t, rules |-> rules, ok |-> ok]}

\* cacheRules(userContent, rules, ...) as called after callOpenAIWithRetry: the
\* fire-and-forget call it leaves in flight (none when the cache is unavailable)
StoreCall(b, t, rules, ok) ==
  IF cacheOn
  THEN {[batch |-> b, text |-> t, rules |-> rules, ok |-> ok]}
  ELSE {}

\* callOpenAIWithRetry resolves for batch b (the provider following script);
\* the batch fires cacheRules and goes on to count itself
LLMDone(b, script) ==
  /\ schedPc = "running"
  /\ batchPc[b] = "llm"
  /\ LET t  == batchText(b)
         r  == callOpenAIWithRetry(script, AnswerOf(t))
         ok == script[r.calls] = "ok"
     IN  /\ batchScript' = [batchScript EXCEPT ![b] = script]
         /\ IF r.threw
            THEN /\ Caught(b)
                 /\ UNCHANGED <<batchRules, batchHow, batchWrite, pendingStores>>
            ELSE /\ batchRules' = [batchRules EXCEPT ![b] = r.result]
                 /\ batchHow' = [batchHow EXCEPT ![b] = IF ok THEN "ok" ELSE "failed"]
                 /\ pendingStores' = pendingStores \cup StoreCall(b, t, r.result, ok)
                 /\ Complete(b, r.result)
                 /\ UNCHANGED batchThrew
  /\ UNCHANGED <<batchLookup, cacheOn, semanticCacheEnabled, cacheIndex, storeRejected,
                 cacheStats>>
  /\ UNCHANGED <<runVars, jobProgress, faults, varsRetry, varsPipe, varsValid>>

\* the progress write of batch b reaches the job tracker and its await
\* resolves, or the await throws into the catch of the batch body
UpdateDone(b, throws) ==
  /\ schedPc = "running"
  /\ batchPc[b] = "update"
  /\ throws => faults < MaxFaults
  /\ faults' = IF throws THEN faults + 1 ELSE faults
  /\ batchWrite' = [batchWrite EXCEPT ![b] = <<>>]
  /\ IF throws
     THEN /\ Caught(b)
          /\ UNCHANGED jobProgress
     ELSE /\ jobProgress' = batchWrite[b][1]
          /\ batchPc' = [batchPc EXCEPT ![b] = "done"]
          /\ batchRet' = [batchRet EXCEPT ![b] = batchRules[b]]
          /\ resolved' = Append(resolved, b)
          /\ UNCHANGED <<processedBatches, batchThrew>>
  /\ UNCHANGED <<batchRules, batchHow, batchScript, batchLookup>>
  /\ UNCHANGED <<runVars, cacheVars, varsRetry, varsPipe, varsValid>>

\* A mutant: the results of a group are lost from its first rejected batch on.
RECURSIVE GroupResults_FailFast(_, _)
GroupResults_FailFast(b, last) ==
  IF b > last \/ batchThrew[b] \/ batchHow[b] = "failed" THEN <<>>
  ELSE batchRet[b] \o GroupResults_FailFast(b + 1, last)

\* results.flat() of the batches b..last, in batch order
RECURSIVE GroupResults(_, _)
GroupResults(b, last) ==
  IF b > last THEN <<>> ELSE batchRet[b] \o GroupResults(b + 1, last)

\* A mutant: the group is over as soon as one of its batches has resolved.
GroupDone_FirstResolved ==
  /\ schedPc = "running"
  /\ \E b \in BatchGroup(groupStart) : batchPc[b] = "done"

\* await Promise.all(batchPromises): every batch of the group has resolved
GroupDone ==
  /\ schedPc = "running"
  /\ \A b \in BatchGroup(groupStart) : batchPc[b] = "done"

\* the results of the batches of order, in that order
RECURSIVE ResultsIn(_)
ResultsIn(order) ==
  IF order = <<>> THEN <<>>
  ELSE batchRet[Head(order)] \o ResultsIn(Tail(order))

\* A mutant: the results are pushed in the order the batches resolved.
Collected_AsResolved == allRules \o ResultsIn(resolved)

\* allRules.push(...results.flat())
Collected ==
  allRules \o GroupResults(groupStart + 1,
                           Min(groupStart + MAX_CONCURRENT_BATCHES, Len(batches)))

\* Promise.all of a group resolves, its results are pushed, and the next
\* group is launched
NextGroup ==
  /\ GroupDone
  /\ groupStart + MAX_CONCURRENT_BATCHES < Len(batches)
  /\ allRules' = Collected
  /\ groupStart' = groupStart + MAX_CONCURRENT_BATCHES
  /\ Launch(groupStart + MAX_CONCURRENT_BATCHES, batches)
  /\ UNCHANGED <<schedPc, batches, uniqueRules, nChunks, apiKey, doc>>
  /\ UNCHANGED <<batchRules, batchHow, batchRet, batchThrew, batchScript,
                 batchLookup, batchWrite, processedBatches>>
  /\ resolved' = <<>>
  /\ UNCHANGED <<cacheVars, jobProgress, faults, varsRetry, varsPipe, varsValid>>

\* Promise.all of the last group resolves: validation, deduplication, return
Finish ==
  /\ GroupDone
  /\ ~(groupStart + MAX_CONCURRENT_BATCHES < Len(batches))
  /\ allRules' = Collected
  /\ uniqueRules' = ValidateAndDedup(Collected)
  /\ schedPc' = "returned"
  /\ UNCHANGED <<batches, groupStart, nChunks, apiKey, doc>>
  /\ UNCHANGED <<batchVars, cacheVars, jobProgress, faults, varsRetry, varsPipe, varsValid>>

\* jobs.update({progress: 70}) after the extraction
WriteProgress70 ==
  /\ schedPc = "returned"
  /\ jobProgress' = PROGRESS_END
  /\ schedPc' = "p70"
  /\ UNCHANGED <<batches, groupStart, allRules, uniqueRules, nChunks, apiKey, doc>>
  /\ UNCHANGED <<batchVars, cacheVars, faults, varsRetry, varsPipe, varsValid>>

\* a fire-and-forget cacheRules call comes to its end (those still in flight
\* when the run returns are left in flight: nothing of the run reads the index
\* after that)
StoreDone(p, so) ==
  /\ schedPc = "running"
  /\ p \in pendingStores
  /\ so # "ok" => faults < MaxFaults
  /\ faults' = IF so # "ok" THEN faults + 1 ELSE faults
  /\ pendingStores' = pendingStores \ {p}
  /\ LET r == cacheRules(cacheOn, cacheIndex, p.text, p.rules, JobId,
                          batches[p.batch].index, so)
     IN  /\ cacheIndex' = r.index
         /\ storeRejected' = (storeRejected \/ r.threw)
  /\ UNCHANGED <<cacheOn, semanticCacheEnabled, cacheStats>>
  /\ UNCHANGED <<runVars, batchVars, jobProgress, varsRetry, varsPipe, varsValid>>

NextSched ==
  \/ WriteProgress30
  \/ StartExtraction
  \/ \E b \in 1..Len(batches), lo \in LookupOutcomes :
       \E e \in TopK1(cacheIndex, batchText(b)) : LookupDone(b, lo, e)
  \/ \E b \in 1..Len(batches), script \in Scripts : LLMDone(b, script)
  \/ \E b \in 1..Len(batches), throws \in BOOLEAN : UpdateDone(b, throws)
  \/ NextGroup
  \/ Finish
  \/ WriteProgress70
  \/ \E p \in pendingStores, so \in StoreOutcomes : StoreDone(p, so)

SpecSched == InitSched /\ [][NextSched]_vars

Returned == schedPc \in {"returned", "p70"} /\ batches # <<>>

\* what the promises of batches 1..n resolved to, by batch index
RECURSIVE ByIndex(_)
ByIndex(n) == IF n = 0 THEN <<>> ELSE ByIndex(n - 1) \o batchRet[n]

\* C38 (aggregate order): the aggregate list is a function of what the batches
\* resolved to alone, their results in batch order, whatever the order in which
\* they resolved: after every group the list holds the results of the groups
\* over by batch index, and the returned list is the deduplication of the
\* results of all batches by batch index (so the surviving rule of a key is
\* the one of the lowest batch, and of the lowest position in it).
C38_AggregateByBatchIndex ==
  /\ schedPc = "running" => allRules = ByIndex(groupStart)
  /\ Returned =>
       /\ allRules = ByIndex(Len(batches))
       /\ uniqueRules = ValidateAndDedup(ByIndex(Len(batches)))

\* a run has returned whose second batch resolved first, both batches having
\* resolved to rules, with the rule the first batch gave for a key surviving
\* the second batch's rule of the same key
C38_Witness ==
  /\ Returned
  /\ Len(batches) = 2 /\ resolved = <<2, 1>>
  /\ batchRet[1] = <<RPay, RLowConf>>
  /\ batchRet[2] = <<RPayDup, RShort>>
  /\ \E i \in 1..Len(uniqueRules) : uniqueRules[i].text = RPay.text
  /\ \A i \in 1..Len(uniqueRules) : uniqueRules[i].text # RPayDup.text

\* the entries of an index under the ID of text t
EntriesOf(index, t) == {e \in index : e.id = createChunkHash(t)}

\* a step in which the store p comes to its end with both its calls answered
\* (a call that fails is counted in faults)
UpsertCompleted(p) ==
  /\ p \in pendingStores /\ pendingStores' = pendingStores \ {p}
  /\ cacheOn /\ faults' = faults

\* C39 (idempotent upsert): the ID of an entry is that of its text, no two
\* entries of the index share an ID, and a store that completes leaves under
\* the ID of its text exactly one entry, which holds the rules of that store,
\* however many stores of the same text completed before it and in whatever
\* order; the entries of the other IDs are left as they were.
C39_IdempotentUpsert ==
  /\ [](\A e \in cacheIndex :
         /\ e.id = createChunkHash(e.vector)
         /\ EntriesOf(cacheIndex, e.vector) = {e})
  /\ [][\A p \in pendingStores :
          UpsertCompleted(p) =>
            /\ EntriesOf(cacheIndex', p.text) =
                 {CacheEntry(p.text, p.rules, JobId, batches[p.batch].index)}
            /\ cacheIndex' \ EntriesOf(cacheIndex', p.text) =
                 cacheIndex \ EntriesOf(cacheIndex, p.text)]_vars

\* the first two batches have the same text, both called the provider and
\* obtained rules, the stores of both have completed with no call failing,
\* the second before the first: the index holds one entry of that text, the
\* one of the first batch
C39_Witness ==
  /\ cacheOn /\ faults = 0
  /\ Len(batches) >= 2
  /\ batchText(1) = batchText(2)
  /\ batchHow[1] = "ok" /\ batchHow[2] = "ok"
  /\ \A p \in pendingStores : p.batch \notin {1, 2}
  /\ Cardinality(EntriesOf(cacheIndex, batchText(1))) = 1
  /\ \A e \in EntriesOf(cacheIndex, batchText(1)) :
       /\ e.metadata.chunkIndex = batches[1].index
       /\ e.metadata.rules = batchRules[1]

\* a batch failed: its extraction came back empty after the retries or on a
\* non-retryable outcome, or its body threw
BatchFailed(b) == batchThrew[b] \/ batchHow[b] = "failed"

RECURSIVE RulesOfSucceeded(_)
RulesOfSucceeded(b) ==
  IF b > Len(batches) THEN <<>>
  ELSE (IF BatchFailed(b) THEN <<>> ELSE batchRules[b]) \o RulesOfSucceeded(b + 1)

\* C4 (batch failure isolation): whatever batches fail, when the run returns
\* every batch has been started and has completed, and the aggregate list is
\* the concatenation, in batch order, of the rules of the batches that did not
\* fail; while the run goes on, a failed batch leaves its siblings in flight.
C4_FailureIsolation ==
  /\ Returned =>
       /\ \A b \in 1..Len(batches) : batchPc[b] = "done"
       /\ allRules = RulesOfSucceeded(1)
  /\ \A b \in 1..Len(batches) :
       (batchPc[b] = "done" /\ BatchFailed(b)) => batchRet[b] = <<>>
  /\ schedPc = "running" =>
       \A b \in BatchGroup(groupStart) : batchPc[b] # "pending"

C4_Witness ==
  /\ Returned
  /\ Len(batches) = 4
  /\ batchHow[1] = "failed"
  /\ batchThrew[2]
  /\ batchHow[3] = "ok" /\ ~batchThrew[3]
  /\ batchHow[4] = "ok"
  /\ allRules = batchRules[3] \o batchRules[4]

\* C5 (bounded concurrency): at most MAX_CONCURRENT_BATCHES batches are in
\* flight (started and not completed) in any state.
C5_BoundedConcurrency == Cardinality(InFlight) <= MAX_CONCURRENT_BATCHES

C5_Witness ==
  /\ Len(batches) > MAX_CONCURRENT_BATCHES
  /\ Cardinality(InFlight) = MAX_CONCURRENT_BATCHES
  /\ \E b \in InFlight : batchPc[b] = "update"

\* C6 (progress monotonicity): from the write of 30 on, the progress the job
\* tracker holds never decreases and stays within [30, 70].
C6_ProgressMonotone ==
  [][(jobProgress >= PROGRESS_START) =>
       (jobProgress' >= jobProgress /\ jobProgress' <= PROGRESS_END)]_vars

\* C7 (cache fail-open on lookup): a batch whose lookup's embedding call or
\* vector query failed (status, network error, malformed response) gets a
\* miss: it never uses cached rules, and it goes on to call the completion
\* provider.
C7_LookupFailOpen ==
  \A b \in 1..Len(batches) :
    batchLookup[b] = "failed" =>
      /\ batchHow[b] \notin {"hit", "hit_other"}
      /\ batchPc[b] \in {"llm", "update", "done"}
      /\ batchPc[b] \in {"update", "done"} => batchScript[b] # <<>>

\* C8 (store only after a successful extraction): a batch whose extraction
\* failed causes no cache store: none is in flight for it and the index holds
\* no entry written for it.
C8_StoreOnlyOnSuccess ==
  \A b \in 1..Len(batches) :
    batchHow[b] = "failed" =>
      /\ \A p \in pendingStores : p.batch # b
      /\ \A e \in cacheIndex : e.metadata.chunkIndex # batches[b].index

\* what the run returns with the cache disabled, under the provider f (text ->
\* script) and the same failures of the tracker's writes
RECURSIVE UncachedRules(_, _)
UncachedRules(b, f) ==
  IF b > Len(batches) THEN <<>>
  ELSE (IF batchThrew[b] THEN <<>>
        ELSE callOpenAIWithRetry(f[batchText(b)], AnswerOf(batchText(b))).result)
       \o UncachedRules(b + 1, f)

\* the deterministic providers that agree with the completion calls of the run
Providers ==
  {f \in [BatchTexts -> Scripts] :
     \A b \in 1..Len(batches) : batchScript[b] # <<>> => f[batchText(b)] = batchScript[b]}

Transparent ==
  \A f \in Providers : uniqueRules = ValidateAndDedup(UncachedRules(1, f))

\* C9 as stated (cache transparency): under a deterministic provider the run
\* returns with the cache enabled what it returns with the cache disabled;
\* stated of the runs in which no call to the cache's services fails and no
\* extraction fails, where neither C7's nor C8's case arises.
C9_CacheTransparent ==
  (/\ schedPc = "returned" /\ apiKey
   /\ faults = 0
   /\ \A b \in 1..Len(batches) : batchHow[b] # "failed") => Transparent

\* every rule set the cache served was stored for the very text looked up
ExactHitsOnly == \A b \in 1..Len(batches) : batchHow[b] # "hit_other"

\* C9 as amended: the same, for the runs every cache hit of which is served
\* from an entry stored for the same batch text.
C9_TransparentOnExactHits ==
  (schedPc = "returned" /\ apiKey /\ ExactHitsOnly) => Transparent

C9_Witness ==
  /\ schedPc = "returned" /\ cacheOn /\ ExactHitsOnly
  /\ Len(batches) = 4
  /\ batchText(2) # batchText(1)
  /\ batchHow[1] = "ok" /\ batchHow[2] = "ok" /\ batchHow[4] = "hit"
  /\ uniqueRules # <<>>
  /\ Providers # {}

\* the best score the index holds for a text, and the entries that have it
BestScore(t) ==
  CHOOSE m \in {Score(e.vector, t) : e \in cacheIndex} :
    \A e \in cacheIndex : Score(e.vector, t) <= m

Nearest(t) == {e \in cacheIndex : Score(e.vector, t) = BestScore(t)}

\* the lookup of batch b returns in this step, its two calls having succeeded
LookupReturns(b) ==
  /\ cacheOn
  /\ batchPc[b] = "lookup" /\ batchPc'[b] # "lookup"
  /\ batchLookup'[b] = "ok"

C23_SemanticFlagDisablesCache ==
  (schedPc # "idle" /\ ~semanticCacheEnabled) =>
    /\ ~cacheOn
    /\ cacheStats = [hits |-> 0, misses |-> 0]
    /\ cacheIndex = {}
    /\ pendingStores = {}
    /\ \A b \in 1..Len(batchHow) : batchHow[b] \notin {"hit", "hit_other"}
    /\ \A b \in 1..Len(batchLookup) : batchLookup[b] # "failed"

\* the store p comes to its end in this step
StoreReturns(p) == p \in pendingStores /\ p \notin pendingStores'

\* the entry a store is to leave in the index
StoredEntry(p) ==
  [id |-> createChunkHash(p.text), vector |-> p.text,
   metadata |-> [rules |-> p.rules, docId |-> JobId,
                 chunkIndex |-> batches[p.batch].index, model |-> "gpt-4o-mini"]]

\* C21: no cacheRules call throws, whatever its embedding call and its
\* upsert come to; a call whose two calls succeed leaves in the index exactly
\* one entry for the text, with the rules, docId, chunkIndex and model given,
\* and the other entries as they were; a call that failed leaves the index
\* as it was.
C21_StoreFailOpen ==
  [][/\ ~storeRejected'
     /\ \A p \in pendingStores :
          StoreReturns(p) =>
            IF faults' = faults
            THEN /\ StoredEntry(p) \in cacheIndex'
                 /\ {e \in cacheIndex' : e.id = StoredEntry(p).id} = {StoredEntry(p)}
                 /\ {e \in cacheIndex' : e.id # StoredEntry(p).id}
                      = {e \in cacheIndex : e.id # StoredEntry(p).id}
            ELSE cacheIndex' = cacheIndex]_vars

\* a store has failed and another has written its entry
C21_Witness ==
  /\ cacheOn /\ faults = 1 /\ ~storeRejected
  /\ Cardinality(cacheIndex) = 1
  /\ \E b \in 1..Len(batches), c \in 1..Len(batches) :
       /\ b # c
       /\ batchHow[b] \in {"ok", "failed"} /\ batchHow[c] \in {"ok", "failed"}
       /\ batchText(b) # batchText(c)
       /\ \A p \in pendingStores : p.batch \notin {b, c}
       /\ \E e \in cacheIndex : e.vector = batchText(c)
       /\ \A e \in cacheIndex : e.vector # batchText(b)
       /\ \A x \in 1..Len(batches) : batchLookup[x] # "failed"
       /\ \A x \in 1..Len(batches) : ~batchThrew[x]

\* the lookups that have returned
LookupsDone == {b \in 1..Len(batchLookup) : batchLookup[b] \in {"ok", "failed"}}

\* C22: every lookup that passed the availability check has incremented
\* exactly one of the two counters, and the hit rate getCacheStats gives is
\* hits / (hits + misses), 0 when nothing was counted, within [0,1].
C22_CacheStatistics ==
  cacheOn =>
    LET st == getCacheStats(cacheStats)
    IN  /\ st.hits + st.misses = Cardinality(LookupsDone)
        /\ st.hitRate = IF Cardinality(LookupsDone) = 0 THEN <<0, 1>>
                        ELSE <<st.hits, Cardinality(LookupsDone)>>
        /\ 0 <= st.hitRate[1] /\ st.hitRate[1] <= st.hitRate[2]

\* the batches that have passed a processedBatches++
Counted == {b \in 1..Len(batchPc) : batchPc[b] \in {"update", "done"}}

\* C24: processedBatches is incremented exactly once per batch whatever the
\* order in which the batches complete and whatever their outcome: it is the
\* number of batches that have counted themselves, never above totalBatches,
\* equal to totalBatches once the last group has finished, and no progress
\* value above 70 is computed.
C24_CountedExactlyOnce ==
  schedPc \in {"running", "returned", "p70"} =>
    /\ processedBatches = Cardinality(Counted)
    /\ processedBatches <= Len(batches)
    /\ Returned => processedBatches = Len(batches)
    /\ \A b \in 1..Len(batchWrite) :
         batchWrite[b] # <<>> => batchWrite[b][1] <= PROGRESS_END

\* the progress write of batch b threw: the batch had obtained its rules (from
\* the cache or from the completion provider) and ended in the catch
WriteThrew(b) == batchPc[b] = "done" /\ batchThrew[b] /\ batchHow[b] # "none"

\* C25: a batch whose progress write threw still resolves to the rules it had
\* obtained, and they are in the aggregate list once its group is collected.
C25_ProgressBestEffort ==
  \A b \in 1..Len(batchPc) :
    WriteThrew(b) =>
      /\ batchRet[b] = batchRules[b]
      /\ Returned => \A i \in 1..Len(batchRules[b]) :
                       \E j \in 1..Len(allRules) : allRules[j] = batchRules[b][i]

\* the group of the batch at position b (0-based)
GroupOf(b) == (b - 1) \div MAX_CONCURRENT_BATCHES

\* batch b has started: it has issued its cache lookup
Started(b) == batchPc[b] # "pending"

\* C29: the batches run in consecutive groups of MAX_CONCURRENT_BATCHES; a
\* batch has started only if every batch of the groups before its own has
\* resolved, and the step that collects the results of a group is the step
\* that starts every batch of the next group: nothing waits in between.
C29_GroupBarrier ==
  /\ [](\A b, c \in 1..Len(batchPc) :
          (Started(b) /\ GroupOf(c) < GroupOf(b)) => batchPc[c] = "done")
  /\ [](\A b \in 1..Len(batchPc) :
          Started(b) => b \in 1..(groupStart + MAX_CONCURRENT_BATCHES))
  /\ [][(schedPc = "running" /\ allRules' # allRules /\ schedPc' = "running") =>
          /\ groupStart' = groupStart + MAX_CONCURRENT_BATCHES
          /\ \A b \in 1..Len(batchPc) :
               GroupOf(b) = GroupOf(groupStart' + 1) => (~Started(b) /\ Started(b)')]_vars

\* the second group of a run of four batches has started after a first group
\* whose batches ended in different ways, and the first group's rules are collected
C29_Witness ==
  /\ schedPc = "running" /\ Len(batches) = 4
  /\ groupStart = MAX_CONCURRENT_BATCHES
  /\ batchPc[4] = "llm"
  /\ \E b, c \in 1..3 : batchHow[b] = "ok" /\ batchHow[c] = "failed"
  /\ allRules # <<>>

\* the lookup of batch b has returned; it returned cached rules (a hit)
LookupOver(b) == batchLookup[b] # ""
Hit(b)        == batchHow[b] \in {"hit", "hit_other"}
\* callOpenAIWithRetry has been called for batch b
Called(b)     == batchPc[b] = "llm" \/ batchScript[b] # <<>>

\* C33: for every batch the lookup returns before any completion call of the
\* batch; once it has returned, the completion provider is called iff it
\* returned a miss; a batch with a hit holds rules read from the index, calls
\* no completion and starts no cache store.
C33_CacheProtocol ==
  /\ [](\A b \in 1..Len(batchPc) :
          /\ Called(b) => LookupOver(b)
          /\ LookupOver(b) => (Called(b) <=> ~Hit(b))
          /\ Hit(b) => \A p \in pendingStores : p.batch # b)
  /\ [][\A b \in 1..Len(batchPc) :
          /\ (~Hit(b) /\ Hit(b)') =>
               /\ batchPc[b] = "lookup"
               /\ \E e \in cacheIndex : batchRules'[b] = e.metadata.rules
          /\ (\E p \in pendingStores' \ pendingStores : p.batch = b) =>
               (batchPc[b] = "llm" /\ ~Hit(b) /\ ~Hit(b)')
          /\ Hit(b) => (Hit(b)' /\ batchRules'[b] = batchRules[b])]_vars

\* a run with the cache available has returned: one batch missed, called the
\* provider and stored; a later batch hit that entry and called nothing
C33_Witness ==
  /\ cacheOn /\ schedPc = "returned" /\ Len(batches) = 4
  /\ \E b, c \in 1..Len(batches) :
       /\ batchHow[b] = "ok" /\ batchScript[b] # <<>>
       /\ batchHow[c] = "hit" /\ batchScript[c] = <<>> /\ batchRules[c] # <<>>

\* the chunks (by their position in chunks, 0-based) of a batch
ChunksOf(batch) == [k \in 1..batch.size |-> batch.index + k - 1]

\* C34: the batches built for n chunks are ceil(n / BATCH_SIZE) in number,
\* hold every chunk exactly once in the original order, have between 1 and
\* BATCH_SIZE chunks each, and only the last has fewer than BATCH_SIZE.
C34_BatchPartition ==
  schedPc \in {"running", "returned", "p70"} /\ apiKey =>
    /\ Len(batches) = (nChunks + BATCH_SIZE - 1) \div BATCH_SIZE
    /\ Flatten([b \in 1..Len(batches) |-> ChunksOf(batches[b])])
         = [k \in 1..nChunks |-> k - 1]
    /\ \A b \in 1..Len(batches) :
         /\ 1 <= batches[b].size /\ batches[b].size <= BATCH_SIZE
         /\ b < Len(batches) => batches[b].size = BATCH_SIZE

\* the batches of 7 chunks are built: a full batch and a batch of 3
C34_Witness ==
  /\ schedPc = "running" /\ nChunks = 7
  /\ Len(batches) = 2 /\ batches[2].size = 3 /\ batches[2].index = BATCH_SIZE

(***************************************************************************)
(* Deno.serve: the upload and its background task, with exact reuse        *)
(***************************************************************************)
PROGRESS_PARSED == 30
PROGRESS_DONE   == 100

MaxDocs       == 3
MaxPipeFaults == 1

Users == {"u1", "u2"}
Files == {"f1", "f2"}

\* SHA-256 of the file's bytes, in hex
calculateFileHash(file) == <<"sha256", file>>

\* what parsePDF makes of a file
ParsedText(file)  == IF file = "f1" THEN BT("A", FALSE) ELSE BT("B", FALSE)
ParsedPages(file) == IF file = "f1" THEN 1 ELSE 2

NoSource == 0
NoLocals == [sourceDocId |-> NoSource, existingRules |-> <<>>, rules |-> <<>>,
             calls |-> 0, lookups |-> 0, parsed |-> "none", prior |-> {},
             saved |-> "none", summary |-> FALSE]

Docs == 1..Len(documents)

\* the owner's documents that are done with the hash of file
DoneWithHash(u, file) ==
  {s \in Docs : /\ documents[s].user_id = u
                /\ documents[s].file_hash = calculateFileHash(file)
                /\ documents[s].status = "done"}

InitPipe ==
  /\ documents = <<>> /\ jobs = <<>> /\ rulesTable = <<>>
  /\ runPc = <<>> /\ runLocal = <<>>
  /\ exactReuse \in BOOLEAN
  /\ pipeFaults = 0
  /\ IdleRetry
  /\ IdleSched
  /\ IdleValid

\* the request handler: documents.insert (status queued), jobs.insert (status
\* running, progress 10), and the background task is started; when the job's
\* insert fails the handler answers 500 and the document stays queued
Upload(u, file, jobFails) ==
  /\ Len(documents) < MaxDocs
  /\ jobFails => pipeFaults < MaxPipeFaults
  /\ pipeFaults' = IF jobFails THEN pipeFaults + 1 ELSE pipeFaults
  /\ documents' = Append(documents,
                         [user_id |-> u, name |-> file, file |-> file, status |-> "queued",
                          file_hash |-> <<>>, pages |-> 0])
  /\ jobs' = Append(jobs, IF jobFails THEN [status |-> "none", progress |-> 0, error |-> "none"]
                          ELSE [status |-> "running", progress |-> PROGRESS_CREATED,
                                error |-> "none"])
  /\ rulesTable' = Append(rulesTable, <<>>)
  /\ runPc' = Append(runPc, IF jobFails THEN "end" ELSE "start")
  /\ runLocal' = Append(runLocal, [NoLocals EXCEPT !.prior = DoneWithHash(u, file)])
  /\ UNCHANGED <<exactReuse, varsRetry, varsSched, varsValid>>

\* documents.update({status: 'processing'})
SetProcessing(d) ==
  /\ runPc[d] = "start"
  /\ documents' = [documents EXCEPT ![d].status = "processing"]
  /\ runPc' = [runPc EXCEPT ![d] = "hash"]
  /\ UNCHANGED <<jobs, rulesTable, runLocal, exactReuse, pipeFaults, varsRetry, varsSched, varsValid>>

\* calculateFileHash and documents.update({file_hash})
StoreHash(d) ==
  /\ runPc[d] = "hash"
  /\ documents' = [documents EXCEPT ![d].file_hash = calculateFileHash(documents[d].file)]
  /\ runPc' = [runPc EXCEPT ![d] = IF exactReuse THEN "query" ELSE "parse"]
  /\ UNCHANGED <<jobs, rulesTable, runLocal, exactReuse, pipeFaults, varsRetry, varsSched, varsValid>>

\* A mutant: the query does not filter on the owner.
ExistingDocs_AnyOwner(d) ==
  {s \in Docs : /\ documents[s].file_hash = calculateFileHash(documents[d].file)
                /\ documents[s].status = "done"
                /\ s # d}

\* documents.select('id').eq('user_id', user.id).eq('file_hash', fileHash)
\*   .eq('status', 'done').neq('id', document.id)
ExistingDocs(d) ==
  {s \in Docs : /\ documents[s].user_id = documents[d].user_id
                /\ documents[s].file_hash = calculateFileHash(documents[d].file)
                /\ documents[s].status = "done"
                /\ s # d}

\* the query answers with src (.limit(1): any one of the matches, or none),
\* or with an error
ReuseQuery(d, src, fails) ==
  /\ runPc[d] = "query"
  /\ fails => pipeFaults < MaxPipeFaults
  /\ pipeFaults' = IF fails THEN pipeFaults + 1 ELSE pipeFaults
  /\ IF fails \/ ExistingDocs(d) = {}
     THEN /\ src = NoSource
          /\ runPc' = [runPc EXCEPT ![d] = "parse"]
          /\ UNCHANGED runLocal
     ELSE /\ src \in ExistingDocs(d)
          /\ runLocal' = [runLocal EXCEPT ![d].sourceDocId = src]
          /\ runPc' = [runPc EXCEPT ![d] = "fetch"]
  /\ UNCHANGED <<documents, jobs, rulesTable, exactReuse, varsRetry, varsSched, varsValid>>

\* rules.select('*').eq('document_id', sourceDocId): the reuse goes on only
\* with at least one rule
ReuseFetchRules(d, fails) ==
  /\ runPc[d] = "fetch"
  /\ fails => pipeFaults < MaxPipeFaults
  /\ pipeFaults' = IF fails THEN pipeFaults + 1 ELSE pipeFaults
  /\ LET existingRules == rulesTable[runLocal[d].sourceDocId]
     IN  IF ~fails /\ Len(existingRules) > 0
         THEN /\ runLocal' = [runLocal EXCEPT ![d].existingRules = existingRules]
              /\ runPc' = [runPc EXCEPT ![d] = "copy"]
         ELSE /\ runPc' = [runPc EXCEPT ![d] = "parse"]
              /\ UNCHANGED runLocal
  /\ UNCHANGED <<documents, jobs, rulesTable, exactReuse, varsRetry, varsSched, varsValid>>

\* existingRules.map(rule => ({document_id: document.id, ...}))
CopiedRules(d, existingRules) ==
  [i \in 1..Len(existingRules) |->
     [existingRules[i] EXCEPT !.document_id = d, !.document_name = documents[d].name]]

\* rules.insert(copiedRules), its error ignored
ReuseInsert(d, fails) ==
  /\ runPc[d] = "copy"
  /\ fails => pipeFaults < MaxPipeFaults
  /\ pipeFaults' = IF fails THEN pipeFaults + 1 ELSE pipeFaults
  /\ rulesTable' = IF fails THEN rulesTable
                   ELSE [rulesTable EXCEPT ![d] = @ \o CopiedRules(d, runLocal[d].existingRules)]
  /\ runPc' = [runPc EXCEPT ![d] = "reuseDoc"]
  /\ UNCHANGED <<documents, jobs, runLocal, exactReuse, varsRetry, varsSched, varsValid>>

\* documents.update({status: 'done', pages: sourceDoc?.pages || null, ...})
ReuseDocDone(d) ==
  /\ runPc[d] = "reuseDoc"
  /\ documents' = [documents EXCEPT ![d].status = "done",
                                    ![d].pages = documents[runLocal[d].sourceDocId].pages]
  /\ runPc' = [runPc EXCEPT ![d] = "jobDone"]
  /\ UNCHANGED <<jobs, rulesTable, runLocal, exactReuse, pipeFaults, varsRetry, varsSched, varsValid>>

\* A mutant: the text is not checked.
Parse_NoEmptyCheck(d, po) ==
  /\ runPc[d] = "parse"
  /\ po # "ok" => pipeFaults < MaxPipeFaults
  /\ pipeFaults' = IF po # "ok" THEN pipeFaults + 1 ELSE pipeFaults
  /\ runLocal' = [runLocal EXCEPT ![d].parsed = po]
  /\ IF po \in {"ok", "empty"}
     THEN /\ jobs' = [jobs EXCEPT ![d].progress = PROGRESS_PARSED]
          /\ runPc' = [runPc EXCEPT ![d] = "extract"]
     ELSE /\ runPc' = [runPc EXCEPT ![d] = "errDoc"]
          /\ UNCHANGED jobs
  /\ UNCHANGED <<documents, rulesTable, exactReuse, varsRetry, varsSched, varsValid>>

\* parsePDF (which gives a text, an empty or blank text, or throws), the
\* check of the text, and jobs.update({progress: 30})
Parse(d, po) ==
  /\ runPc[d] = "parse"
  /\ po # "ok" => pipeFaults < MaxPipeFaults
  /\ pipeFaults' = IF po # "ok" THEN pipeFaults + 1 ELSE pipeFaults
  /\ runLocal' = [runLocal EXCEPT ![d].parsed = po]
  /\ IF po = "ok"
     THEN /\ jobs' = [jobs EXCEPT ![d].progress = PROGRESS_PARSED]
          /\ runPc' = [runPc EXCEPT ![d] = "extract"]
     ELSE /\ runPc' = [runPc EXCEPT ![d] = "errDoc"]
          /\ UNCHANGED jobs
  /\ UNCHANGED <<documents, rulesTable, exactReuse, varsRetry, varsSched, varsValid>>

\* extractRulesFromText for a text of one batch, the semantic cache
\* unavailable: the returned rules, the completion calls issued and the
\* calls of getCachedRules
ExtractOneBatch(t, script) ==
  LET c == getCachedRules(FALSE, t, NoEntry, "ok", [hits |-> 0, misses |-> 0])
      r == callOpenAIWithRetry(script, AnswerOf(t))
  IN  IF c.hit
      THEN [rules |-> ValidateAndDedup(c.rules), calls |-> 0, lookups |-> 1]
      ELSE [rules |-> ValidateAndDedup(r.result), calls |-> r.calls, lookups |-> 1]

\* ExtractOneBatch on the texts of the files, computed once
Extracted == [file \in Files, script \in Scripts |->
                ExtractOneBatch(ParsedText(file), script)]

\* A mutant: a batch that yields no rule throws out of the extraction.
Extract_FailFast(d, script) ==
  /\ runPc[d] = "extract"
  /\ LET x == Extracted[documents[d].file, script]
     IN  /\ runLocal' = [runLocal EXCEPT ![d].rules = x.rules, ![d].calls = @ + x.calls,
                                          ![d].lookups = @ + x.lookups]
         /\ IF x.rules = <<>>
            THEN /\ runPc' = [runPc EXCEPT ![d] = "errDoc"]
                 /\ UNCHANGED jobs
            ELSE /\ runPc' = [runPc EXCEPT ![d] = "save"]
                 /\ jobs' = [jobs EXCEPT ![d].progress = PROGRESS_END]
  /\ UNCHANGED <<documents, rulesTable, exactReuse, pipeFaults, varsRetry, varsSched, varsValid>>

\* extractRulesFromText returns, and jobs.update({progress: 70})
Extract(d, script) ==
  /\ runPc[d] = "extract"
  /\ LET x == Extracted[documents[d].file, script]
     IN  runLocal' = [runLocal EXCEPT ![d].rules = x.rules, ![d].calls = @ + x.calls,
                                      ![d].lookups = @ + x.lookups]
  /\ jobs' = [jobs EXCEPT ![d].progress = PROGRESS_END]
  /\ runPc' = [runPc EXCEPT ![d] = "save"]
  /\ UNCHANGED <<documents, rulesTable, exactReuse, pipeFaults, varsRetry, varsSched, varsValid>>

\* rules.map(r => ({document_id: document.id, ...}))
RulesData(d, rules) ==
  [i \in 1..Len(rules) |->
     [document_id |-> d, document_name |-> documents[d].name,
      text |-> rules[i].text, conditions |-> rules[i].conditions,
      domain |-> rules[i].domain,
      tags |-> SubSeq(rules[i].tags, 1, Min(MAX_TAGS, Len(rules[i].tags))),
      confidence |-> rules[i].confidence,
      source_page |-> rules[i].source.page, source_sect |-> rules[i].source.section]]

\* A mutant: the error of the insert is not read.
SaveRules_IgnoreError(d, fails) ==
  /\ runPc[d] = "save"
  /\ fails => (pipeFaults < MaxPipeFaults /\ Len(runLocal[d].rules) > 0)
  /\ pipeFaults' = IF fails THEN pipeFaults + 1 ELSE pipeFaults
  /\ runLocal' = [runLocal EXCEPT ![d].saved = IF fails THEN "failed" ELSE "ok"]
  /\ rulesTable' = IF fails THEN rulesTable
                   ELSE [rulesTable EXCEPT ![d] = @ \o RulesData(d, runLocal[d].rules)]
  /\ runPc' = [runPc EXCEPT ![d] = "docDone"]
  /\ UNCHANGED <<documents, jobs, exactReuse, varsRetry, varsSched, varsValid>>

\* rules.insert(rulesData) when there are rules; on its error the job is
\* marked error and the task returns
SaveRules(d, fails) ==
  /\ runPc[d] = "save"
  /\ fails => (pipeFaults < MaxPipeFaults /\ Len(runLocal[d].rules) > 0)
  /\ pipeFaults' = IF fails THEN pipeFaults + 1 ELSE pipeFaults
  /\ runLocal' = [runLocal EXCEPT ![d].saved = IF fails THEN "failed" ELSE "ok"]
  /\ IF fails
     THEN /\ jobs' = [jobs EXCEPT ![d].status = "error", ![d].error = "rulesError.message"]
          /\ runPc' = [runPc EXCEPT ![d] = "end"]
          /\ UNCHANGED rulesTable
     ELSE /\ rulesTable' = [rulesTable EXCEPT ![d] = @ \o RulesData(d, runLocal[d].rules)]
          /\ runPc' = [runPc EXCEPT ![d] = "docDone"]
          /\ UNCHANGED jobs
  /\ UNCHANGED <<documents, exactReuse, varsRetry, varsSched, varsValid>>

\* documents.update({pages: numPages, status: 'done'})
DocDone(d) ==
  /\ runPc[d] = "docDone"
  /\ documents' = [documents EXCEPT ![d].status = "done",
                                    ![d].pages = ParsedPages(documents[d].file)]
  /\ runPc' = [runPc EXCEPT ![d] = "jobDone"]
  /\ UNCHANGED <<jobs, rulesTable, runLocal, exactReuse, pipeFaults, varsRetry, varsSched, varsValid>>

\* jobs.update({status: 'done', progress: 100}), on either path; the
\* extraction path then fires triggerSummaryGeneration, the reuse path returns
JobDone(d) ==
  /\ runPc[d] = "jobDone"
  /\ jobs' = [jobs EXCEPT ![d].status = "done", ![d].progress = PROGRESS_DONE]
  /\ runLocal' = [runLocal EXCEPT ![d].summary = (runLocal[d].existingRules = <<>>)]
  /\ runPc' = [runPc EXCEPT ![d] = "end"]
  /\ UNCHANGED <<documents, rulesTable, exactReuse, pipeFaults, varsRetry, varsSched, varsValid>>

\* the catch of the task: documents.update({status: 'error'})
ErrDoc(d) ==
  /\ runPc[d] = "errDoc"
  /\ documents' = [documents EXCEPT ![d].status = "error"]
  /\ runPc' = [runPc EXCEPT ![d] = "errJob"]
  /\ UNCHANGED <<jobs, rulesTable, runLocal, exactReuse, pipeFaults, varsRetry, varsSched, varsValid>>

\* error.message of what the task's catch has caught
ErrorMessage(d) ==
  IF runLocal[d].parsed = "empty" THEN "Empty or unreadable PDF content"
  ELSE "parsePDF: error.message"

\* A mutant: the catch leaves the job as it is.
ErrJob_NoStatus(d) ==
  /\ runPc[d] = "errJob"
  /\ runPc' = [runPc EXCEPT ![d] = "end"]
  /\ UNCHANGED <<documents, jobs, rulesTable, runLocal, exactReuse, pipeFaults, varsRetry, varsSched, varsValid>>

\* the catch of the task: jobs.update({status: 'error', error})
ErrJob(d) ==
  /\ runPc[d] = "errJob"
  /\ jobs' = [jobs EXCEPT ![d].status = "error", ![d].error = ErrorMessage(d)]
  /\ runPc' = [runPc EXCEPT ![d] = "end"]
  /\ UNCHANGED <<documents, rulesTable, runLocal, exactReuse, pipeFaults, varsRetry, varsSched, varsValid>>

ParseOutcomes == {"ok", "empty", "throw"}

Next ==
  \/ \E u \in Users, file \in Files, jobFails \in BOOLEAN : Upload(u, file, jobFails)
  \/ \E d \in Docs : SetProcessing(d)
  \/ \E d \in Docs : StoreHash(d)
  \/ \E d \in Docs, src \in Docs \cup {NoSource}, fails \in BOOLEAN : ReuseQuery(d, src, fails)
  \/ \E d \in Docs, fails \in BOOLEAN : ReuseFetchRules(d, fails)
  \/ \E d \in Docs, fails \in BOOLEAN : ReuseInsert(d, fails)
  \/ \E d \in Docs : ReuseDocDone(d)
  \/ \E d \in Docs, po \in ParseOutcomes : Parse(d, po)
  \/ \E d \in Docs, script \in Scripts : Extract(d, script)
  \/ \E d \in Docs, fails \in BOOLEAN : SaveRules(d, fails)
  \/ \E d \in Docs : DocDone(d)
  \/ \E d \in Docs : JobDone(d)
  \/ \E d \in Docs : ErrDoc(d)
  \/ \E d \in Docs : ErrJob(d)

Spec == InitPipe /\ [][Next]_vars

\* ---- the runs under fairness (SpecLive): every awaited call of a task
\* returns or throws in the end and the event loop resumes the task, so a step
\* of a task that can be taken is taken; uploads come or not
MaxLiveDocs == 2

RunStep ==
  \/ \E d \in Docs : SetProcessing(d)
  \/ \E d \in Docs : StoreHash(d)
  \/ \E d \in Docs, src \in Docs \cup {NoSource}, fails \in BOOLEAN : ReuseQuery(d, src, fails)
  \/ \E d \in Docs, fails \in BOOLEAN : ReuseFetchRules(d, fails)
  \/ \E d \in Docs, fails \in BOOLEAN : ReuseInsert(d, fails)
  \/ \E d \in Docs : ReuseDocDone(d)
  \/ \E d \in Docs, po \in ParseOutcomes : Parse(d, po)
  \/ \E d \in Docs, script \in Scripts : Extract(d, script)
  \/ \E d \in Docs, fails \in BOOLEAN : SaveRules(d, fails)
  \/ \E d \in Docs : DocDone(d)
  \/ \E d \in Docs : JobDone(d)
  \/ \E d \in Docs : ErrDoc(d)
  \/ \E d \in Docs : ErrJob(d)

UploadLive ==
  /\ Len(documents) < MaxLiveDocs
  /\ \E u \in Users, file \in Files, jobFails \in BOOLEAN : Upload(u, file, jobFails)

NextLive == UploadLive \/ RunStep

SpecLive == InitPipe /\ [][NextLive]_vars /\ WF_vars(RunStep)

\* the rules of a document without the columns that name the document
RuleContent(d) ==
  [i \in 1..Len(rulesTable[d]) |->
     [rulesTable[d][i] EXCEPT !.document_id = NoSource, !.document_name = ""]]

\* C3 (exact-reuse short-circuit): with exact reuse enabled, a run for a
\* document whose owner already had a done document of the same content hash
\* at the upload issues no completion call, never enters the parse/extract
\* path, and ends with document and job done and the rules of such a
\* document; stated of the runs in which no database or parser call fails.
C3_ExactReuseShortCircuit ==
  \A b \in Docs :
    (exactReuse /\ pipeFaults = 0 /\ runLocal[b].prior # {}) =>
      /\ runLocal[b].calls = 0
      /\ runPc[b] \notin {"parse", "extract", "save", "docDone"}
      /\ runPc[b] = "end" =>
           /\ documents[b].status = "done"
           /\ jobs[b].status = "done"
           /\ \E a \in runLocal[b].prior : RuleContent(b) = RuleContent(a)

\* C10 (exact-reuse source selection): the source a run has selected, and
\* copies rules from, is another document of the same owner with the same
\* content hash and status done; the rows it copies are the source's.
C10_ReuseSourceSelection ==
  \A d \in Docs :
    LET s == runLocal[d].sourceDocId
    IN  s # NoSource =>
          /\ s # d
          /\ documents[s].user_id = documents[d].user_id
          /\ documents[s].file_hash = calculateFileHash(documents[d].file)
          /\ documents[s].status = "done"
          /\ runLocal[d].existingRules # <<>> =>
               \A i \in 1..Len(runLocal[d].existingRules) :
                 runLocal[d].existingRules[i].document_id = s

C10_Witness ==
  \E d \in Docs, o \in Docs :
    /\ runPc[d] = "end"
    /\ runLocal[d].sourceDocId # NoSource
    /\ rulesTable[d] # <<>>
    /\ RuleContent(d) = RuleContent(runLocal[d].sourceDocId)
    /\ documents[o].user_id # documents[d].user_id
    /\ documents[o].file_hash = documents[d].file_hash
    /\ documents[o].status = "done"
    /\ o < d

\* the background run of document d has finished
RunFinished(d) == runPc[d] = "end" /\ jobs[d].status # "none"

\* C30: when the background run of a document has finished, the document and
\* its job agree: the job is done iff the document is done, the job is in
\* error iff the document is in error, and the job is not in a terminal status
\* over a document still queued or processing.
C30_StatusConsistency ==
  \A d \in Docs :
    RunFinished(d) =>
      /\ jobs[d].status = "done" <=> documents[d].status = "done"
      /\ jobs[d].status = "error" <=> documents[d].status = "error"
      /\ jobs[d].status \in {"done", "error"} =>
           documents[d].status \notin {"queued", "processing"}

\* C32: when the insert of the extracted rules fails, the run is over with
\* the job in status error carrying the store's error message; the document
\* is not done, the job is not at progress 100, and no summary generation has
\* been triggered.
C32_InsertFailureMarksError ==
  \A d \in Docs :
    runLocal[d].saved = "failed" =>
      /\ runPc[d] = "end"
      /\ jobs[d].status = "error"
      /\ jobs[d].error = "rulesError.message"
      /\ documents[d].status # "done"
      /\ jobs[d].progress # PROGRESS_DONE
      /\ ~runLocal[d].summary

\* the insert of a run's extracted rules has failed while another run's
\* insert went through and triggered its summary
C32_Witness ==
  \E d, e \in Docs :
    /\ runLocal[d].saved = "failed" /\ runLocal[d].rules # <<>>
    /\ runLocal[e].saved = "ok" /\ runLocal[e].summary /\ runPc[e] = "end"

\* the job of document d is in a terminal status
Terminal(d) == d \in Docs /\ jobs[d].status \in {"done", "error"}

ByReuse(d) == runLocal[d].existingRules # <<>>

\* the rows the run of document d has to store: the copies of the rules it
\* fetched, or the rows of the rules it extracted
RowsDue(d) ==
  IF ByReuse(d) THEN CopiedRules(d, runLocal[d].existingRules)
  ELSE RulesData(d, runLocal[d].rules)

\* C31: a document has status done only when the rows its run produced or
\* copied for it are all stored, on the extraction path and on the
\* exact-reuse path; so a later reuse that selects it reads its full rule set.
C31_DoneOnlyAfterRulesStored ==
  \A d \in Docs :
    documents[d].status = "done" => rulesTable[d] = RowsDue(d)

(***************************************************************************)
(* The validation and deduplication of extractRulesFromText, on its own    *)
(***************************************************************************)
MaxCandidates == 3
KEY_WORDS_PLUS_ONE == MAX_KEY_WORDS + 1

\* "Pay fees." behind one blank: 10 characters, 9 once trimmed
TxtLen9  == Text(1, 0, <<Word("pay", 3, TRUE, 0), Word("fees", 4, FALSE, 1)>>)
\* "Pay bills." before two blanks: 10 characters once trimmed
TxtLen10 == Text(0, 2, <<Word("pay", 3, TRUE, 0), Word("bills", 5, FALSE, 1)>>)
\* sixteen words longer than 3 characters, alike but for the last
TxtLong(last) ==
  Text(0, 0, [i \in 1..KEY_WORDS_PLUS_ONE |->
                IF i < KEY_WORDS_PLUS_ONE THEN Word("shall", 5, FALSE, 0)
                ELSE Word(last, 5, FALSE, 1)])

RLen9     == Rule(TxtLen9, <<"t1">>, 9000, 1)
RLen10    == Rule(TxtLen10, <<"t1">>, 3000, 1)
RConf2999 == Rule(TxtPay, <<"t1">>, 2999, 1)
RNegative == Rule(TxtAudit, <<"t1">>, -2000, 1)
\* "Le montant doit e^tre paye'." and "Le montant doit e^tre e'gal."
TxtDue(w, bare) ==
  Text(0, 0, <<Word("le", 2, TRUE, 0), Word("montant", 7, FALSE, 0),
               Word("doit", 4, FALSE, 0), Accented("e^tre", 4, "tre", 1, 0),
               Accented(w, 4, bare, 1, 1)>>)
\* "tre's" before the sixteen words of TxtLong but the first
TxtLongAccented(last) ==
  Text(0, 0, [i \in 1..KEY_WORDS_PLUS_ONE |->
                IF i = 1 THEN Accented("tre's", 4, "trs", 1, 0)
                ELSE IF i < KEY_WORDS_PLUS_ONE THEN Word("shall", 5, FALSE, 0)
                ELSE Word(last, 5, FALSE, 1)])

RDuePaid  == Rule(TxtDue("paye'", "pay"), <<"t1">>, 9000, 1)
RDueEqual == Rule(TxtDue("e'gal", "gal"), <<"t1">>, 9000, 2)
RLongC    == Rule(TxtLongAccented("apply"), <<"t1">>, 7000, 3)
RLongD    == Rule(TxtLongAccented("waive"), <<"t2">>, 6000, 4)
RLongA    == Rule(TxtLong("apply"), <<"t1">>, 7000, 3)
RLongB    == Rule(TxtLong("waive"), <<"t2">>, 6000, 4)

\* the candidates a completion (or the cache) can hand to the validation
Candidates == {RPay, RPayDup, RAudit, RLowConf, RShort, RLen9, RLen10,
               RConf2999, RNegative, RLongA, RLongB, RDuePaid, RDueEqual,
               RLongC, RLongD}

CandidateLists ==
  UNION {[1..n -> Candidates] : n \in 0..MaxCandidates}

InitValid ==
  /\ valRules \in CandidateLists
  /\ valPc = "filter" /\ valRun = "first"
  /\ validatedRules = <<>> /\ valUnique = <<>> /\ valFirst = <<>>
  /\ IdleRetry
  /\ IdleSched
  /\ IdlePipe

\* allRules.filter(...).map(...)
Validate ==
  /\ valPc = "filter"
  /\ validatedRules' = ValidateRules(valRules)
  /\ valPc' = "dedup"
  /\ UNCHANGED <<valRun, valRules, valUnique, valFirst, varsRetry, varsSched, varsPipe>>

\* the loop over validatedRules, and the return of uniqueRules
Dedup ==
  /\ valPc = "dedup"
  /\ valUnique' = Deduplicate(validatedRules)
  /\ valFirst' = IF valRun = "first" THEN Deduplicate(validatedRules) ELSE valFirst
  /\ valPc' = "returned"
  /\ UNCHANGED <<valRun, valRules, validatedRules, varsRetry, varsSched, varsPipe>>

\* the validation is given the list it returned
RunAgain ==
  /\ valPc = "returned" /\ valRun = "first"
  /\ valRules' = valUnique
  /\ valRun' = "again"
  /\ valPc' = "filter"
  /\ UNCHANGED <<validatedRules, valUnique, valFirst, varsRetry, varsSched, varsPipe>>

\* the validation is given the same candidates twice over
RunTwice ==
  /\ valPc = "returned" /\ valRun = "first"
  /\ valRules' = valRules \o valRules
  /\ valRun' = "twice"
  /\ valPc' = "filter"
  /\ UNCHANGED <<validatedRules, valUnique, valFirst, varsRetry, varsSched, varsPipe>>

\* the permutations of 1..n
Orders(n) == {f \in [1..n -> 1..n] : \A i, j \in 1..n : f[i] = f[j] => i = j}

\* the validation is given the same candidates in another order
RunPermuted ==
  /\ valPc = "returned" /\ valRun = "first"
  /\ \E f \in Orders(Len(valRules)) :
       /\ valRules' = [i \in 1..Len(valRules) |-> valRules[f[i]]]
       /\ valRules' # valRules
  /\ valRun' = "permuted"
  /\ valPc' = "filter"
  /\ UNCHANGED <<validatedRules, valUnique, valFirst, varsRetry, varsSched, varsPipe>>

NextValid ==
  \/ Validate
  \/ Dedup
  \/ RunAgain
  \/ RunTwice
  \/ RunPermuted

SpecValid == InitValid /\ [][NextValid]_vars

(***************************************************************************)
(* Claims on the validation                                                *)
(***************************************************************************)
Validated == valPc \in {"dedup", "returned"}

\* the condition the filter is said to apply
Survives(r) ==
  /\ TextLength(Trim(r.text)) >= 10
  /\ r.confidence >= 3000

Kept == SelectSeq(valRules, Survives)

TextAccepted(r) == TextLength(Trim(r.text)) >= MIN_TEXT_LENGTH

Clamped(c) == IF c > ONE THEN ONE ELSE IF c < 0 THEN 0 ELSE c

WellFormed(confidence, tags) ==
  /\ confidence \in 0..ONE
  /\ Len(tags) <= 8

LongWord(x) == x.n > 3

\* the key as stated: the words of the text in lower case and without
\* punctuation, those longer than 3 characters, the first 15 of them
KeyOf(r) ==
  LET long == SelectSeq(r.text.words, LongWord)
  IN  [i \in 1..Min(15, Len(long)) |-> long[i].w]

\* the validated candidates no earlier one of which has the same key
FirstOfKey ==
  {i \in 1..Len(validatedRules) :
     \A j \in 1..(i - 1) : KeyOf(validatedRules[j]) # KeyOf(validatedRules[i])}

NthFirst(k) ==
  CHOOSE i \in FirstOfKey : Cardinality({j \in FirstOfKey : j <= i}) = k

\* C14: no two rules returned have the same normalized key (lower case,
\* punctuation stripped, words longer than 3 characters, the first 15 of
\* them), and the list returned is the validated candidates, in their
\* order, each of which is the first of its key.
C14_Deduplication ==
  valPc = "returned" =>
    /\ \A i \in 1..Len(valUnique) : \A j \in 1..Len(valUnique) :
         i # j => KeyOf(valUnique[i]) # KeyOf(valUnique[j])
    /\ Len(valUnique) = Cardinality(FirstOfKey)
    /\ \A k \in 1..Len(valUnique) : valUnique[k] = validatedRules[NthFirst(k)]

\* C15: the validation and deduplication of a list of candidates put twice
\* end to end returns what it returns for the list, and given the list it
\* returned it returns that list.
C15_Idempotent ==
  (valPc = "returned" /\ valRun \in {"again", "twice"}) => valUnique = valFirst

C15_Witness ==
  /\ valPc = "returned" /\ valRun = "twice"
  /\ valRules = <<RPay, RAudit, RPayDup, RPay, RAudit, RPayDup>>
  /\ valFirst = <<CleanRule(RPay), CleanRule(RAudit)>>
  /\ valUnique = valFirst

(***************************************************************************)
(* Claims on the failures of a run                                         *)
(***************************************************************************)
\* C16: a run whose parsed text is empty or blank calls neither the cache
\* lookup nor the completion provider, inserts no rule, and ends with the
\* document in status error and the job in status error with an error
\* message.
C16_EmptyInputFatal ==
  \A d \in Docs :
    runLocal[d].parsed = "empty" =>
      /\ runLocal[d].lookups = 0
      /\ runLocal[d].calls = 0
      /\ rulesTable[d] = <<>>
      /\ runPc[d] \in {"errDoc", "errJob", "end"}
      /\ runPc[d] = "end" =>
           /\ documents[d].status = "error"
           /\ jobs[d].status = "error"
           /\ jobs[d].error = "Empty or unreadable PDF content"

\* a run on an empty text has ended, beside one that extracted rules
C16_Witness ==
  \E d \in Docs, o \in Docs :
    /\ runLocal[d].parsed = "empty" /\ runPc[d] = "end"
    /\ documents[d].status = "error" /\ jobs[d].status = "error"
    /\ jobs[d].error # "none"
    /\ runLocal[o].lookups = 1 /\ runLocal[o].calls > 0 /\ rulesTable[o] # <<>>

\* the batch of a run failed: its completion calls were used up
AllBatchesFailed(d) == runLocal[d].calls = DEFAULT_MAX_RETRIES

ObtainedByReuse(d) == runLocal[d].existingRules # <<>>

\* C19: the document an exact reuse copies from never has rules that were
\* themselves obtained by an exact reuse: every copy is taken from a
\* document whose rules were extracted.
C19_NoChainedReuse ==
  \A d \in Docs :
    ObtainedByReuse(d) => ~ObtainedByReuse(runLocal[d].sourceDocId)

\* the normalized keys of a list of rules
KeysOf(rs) == {NormalizedKey(rs[i].text) : i \in 1..Len(rs)}

====
